---- MODULE Spec2Model ----
(***************************************************************************)
(* Frame tiling and batch assembly of webrender (src/webrender/src/        *)
(* tiling.rs): AlphaBatcher.build, RenderTargetList.allocate,              *)
(* RenderTaskCollection and RenderPass.build as state machines.            *)
(***************************************************************************)
EXTENDS Integers, Sequences, FiniteSets, TLC

(***************************************************************************)
(* Bounds of the exploration.                                              *)
(***************************************************************************)
MaxItems == 4
MaxTasks == 2
MaxCapItems == 12

(***************************************************************************)
(* Program constants.                                                      *)
(***************************************************************************)
MergeWindowWide == 10 + 1
MergeWindow == 10

I32_MAX == 2147483647
OPAQUE_TASK_INDEX == I32_MAX

\* `x as i32` on a usize below 2^32: values up to i32::MAX are kept, larger
\* ones wrap to x - 2^32.
AsI32(x) == IF x <= I32_MAX THEN x ELSE (x - I32_MAX - 1) + (-I32_MAX - 1)

None == [none |-> TRUE]

(***************************************************************************)
(* Device rectangles (DeviceIntRect) and euclid's Rect::intersects.        *)
(***************************************************************************)
Rect(x, y, w, h) == [x |-> x, y |-> y, w |-> w, h |-> h]

intersects(a, b) ==
    /\ a.x < b.x + b.w
    /\ b.x < a.x + a.w
    /\ a.y < b.y + b.h
    /\ b.y < a.y + a.h

(***************************************************************************)
(* AlphaBatchKey and its compatibility relation.                           *)
(***************************************************************************)
Invalid == "Invalid"
no_texture == <<Invalid, Invalid, Invalid>>

NEEDS_CLIPPING == {"NEEDS_CLIPPING"}
AXIS_ALIGNED == {"AXIS_ALIGNED"}

AlphaBatchKey(kind, flags, blend_mode, textures) ==
    [kind |-> kind, flags |-> flags, blend_mode |-> blend_mode, textures |-> textures]

textures_compatible(t1, t2) == t1 = Invalid \/ t2 = Invalid \/ t1 = t2

is_compatible_with_kind_only(self, other) == self.kind = other.kind
is_compatible_with(self, other) ==
    /\ self.kind = other.kind
    /\ self.flags = other.flags
    /\ self.blend_mode = other.blend_mode
    /\ textures_compatible(self.textures[1], other.textures[1])
    /\ textures_compatible(self.textures[2], other.textures[2])
    /\ textures_compatible(self.textures[3], other.textures[3])

(***************************************************************************)
(* The RenderTargetContext of a build: the primitive store, the clip       *)
(* scroll groups and the stacking contexts the items refer to.  Indices    *)
(* are 1-based here (index i models the source's index i - 1).             *)
(***************************************************************************)
RA == Rect(0, 0, 2, 2)
RB == Rect(1, 1, 2, 2)
RC == Rect(4, 0, 2, 2)
RD == Rect(2, 2, 2, 2)

Prim(kind, opaque, clip, tex, rect, count) ==
    [prim_kind |-> kind, is_opaque |-> opaque, clip_task |-> clip,
     textures |-> tex, blur_radius |-> 0, render_mode |-> "Alpha", color |-> 0,
     ext_image_type |-> "None", gpu_prim_index |-> 0, gpu_data_address |-> 0,
     gpu_data_count |-> count, resource_address |-> 0, render_task |-> None,
     bounding_rect |-> rect]

prim_store ==
    << Prim("Rectangle", FALSE, None, no_texture, RA, 0),
       Prim("Rectangle", FALSE, None, no_texture, RB, 0),
       Prim("Image", FALSE, None, <<"T1", Invalid, Invalid>>, RC, 0),
       Prim("Image", FALSE, None, <<"T2", Invalid, Invalid>>, RD, 0),
       Prim("Image", FALSE, None, <<Invalid, Invalid, Invalid>>, RC, 0),
       Prim("Rectangle", TRUE, None, no_texture, RA, 0),
       Prim("Rectangle", TRUE, None, no_texture, RC, 0),
       Prim("Image", TRUE, None, <<"T1", Invalid, Invalid>>, RB, 0),
       [Prim("TextRun", FALSE, None, <<"T1", Invalid, Invalid>>, RA, 2) EXCEPT !.blur_radius = 2],
       Prim("BoxShadow", FALSE, None, no_texture, RC, 1) >>

clip_scroll_group_store ==
    << [kind |-> "AxisAligned", packed_layer_index |-> 0],
       [kind |-> "Complex", packed_layer_index |-> 1] >>

stacking_context_store ==
    << [bounding_rect |-> RB],
       [bounding_rect |-> RC] >>

get_metadata(prim_index) == prim_store[prim_index]

(***************************************************************************)
(* AlphaBatchHelpers for PrimitiveStore.                                   *)
(***************************************************************************)
get_batch_kind(metadata) ==
    CASE metadata.prim_kind = "Border" -> "Border"
      [] metadata.prim_kind = "BoxShadow" -> "BoxShadow"
      [] metadata.prim_kind = "Image" ->
            IF metadata.ext_image_type = "TextureRectHandle" THEN "ImageRect" ELSE "Image"
      [] metadata.prim_kind = "YuvImage" -> "YuvImage"
      [] metadata.prim_kind = "Rectangle" -> "Rectangle"
      [] metadata.prim_kind = "AlignedGradient" -> "AlignedGradient"
      [] metadata.prim_kind = "AngleGradient" -> "AngleGradient"
      [] metadata.prim_kind = "RadialGradient" -> "RadialGradient"
      [] metadata.prim_kind = "TextRun" ->
            IF metadata.blur_radius = 0 THEN "TextRun" ELSE "CacheImage"

get_color_textures(metadata) ==
    CASE metadata.prim_kind \in {"Border", "BoxShadow", "Rectangle", "AlignedGradient",
                                 "AngleGradient", "RadialGradient"} -> no_texture
      [] metadata.prim_kind = "Image" -> <<metadata.textures[1], Invalid, Invalid>>
      [] metadata.prim_kind = "YuvImage" -> metadata.textures
      [] metadata.prim_kind = "TextRun" -> <<metadata.textures[1], Invalid, Invalid>>

\* A YuvImage is blended like an Image.
get_blend_mode_yuv_as_image(needs_blending, metadata) ==
    CASE metadata.prim_kind = "TextRun" ->
            IF metadata.blur_radius = 0
            THEN IF metadata.render_mode = "Subpixel"
                 THEN <<"Subpixel", metadata.color>>
                 ELSE <<"Alpha">>
            ELSE <<"Alpha">>
      [] metadata.prim_kind \in {"Image", "YuvImage", "AlignedGradient", "AngleGradient",
                                 "RadialGradient"} ->
            IF needs_blending THEN <<"PremultipliedAlpha">> ELSE <<"None">>
      [] OTHER ->
            IF needs_blending THEN <<"Alpha">> ELSE <<"None">>
get_blend_mode(needs_blending, metadata) ==
    CASE metadata.prim_kind = "TextRun" ->
            IF metadata.blur_radius = 0
            THEN IF metadata.render_mode = "Subpixel"
                 THEN <<"Subpixel", metadata.color>>
                 ELSE <<"Alpha">>
            ELSE <<"Alpha">>
      [] metadata.prim_kind \in {"Image", "AlignedGradient", "AngleGradient", "RadialGradient"} ->
            IF needs_blending THEN <<"PremultipliedAlpha">> ELSE <<"None">>
      [] OTHER ->
            IF needs_blending THEN <<"Alpha">> ELSE <<"None">>

\* composite_op.to_blend_mode(): one blend mode per hardware composite op.
to_blend_mode(composite_op) == <<composite_op>>

(***************************************************************************)
(* AlphaRenderItem: Primitive(group, prim, z), Blend(sc, src, filter, z),  *)
(* HardwareComposite(sc, src, op, z), Composite(sc, backdrop, src, mode,   *)
(* z).  One record shape; a field a variant lacks is 0.                    *)
(***************************************************************************)
PrimitiveItem(g, p) ==
    [type |-> "Primitive", group |-> g, prim |-> p, sc |-> 0, src |-> 0,
     backdrop |-> 0, op |-> "", z |-> 0]
BlendItem(s, src) ==
    [type |-> "Blend", group |-> 0, prim |-> 0, sc |-> s, src |-> src,
     backdrop |-> 0, op |-> "Opacity", z |-> 0]
HardwareCompositeItem(s, src, op) ==
    [type |-> "HardwareComposite", group |-> 0, prim |-> 0, sc |-> s, src |-> src,
     backdrop |-> 0, op |-> op, z |-> 0]
CompositeItem(s, backdrop, src) ==
    [type |-> "Composite", group |-> 0, prim |-> 0, sc |-> s, src |-> src,
     backdrop |-> backdrop, op |-> "Multiply", z |-> 0]

\* tiling.rs:595-621 and 713-741: the key made from a clip scroll group and
\* the metadata of a primitive.
PrimitiveKeyOf(group, prim_metadata) ==
    LET transform_kind == group.kind
        needs_clipping == prim_metadata.clip_task # None
        needs_blending == transform_kind = "Complex" \/ ~prim_metadata.is_opaque \/ needs_clipping
        blend_mode == get_blend_mode(needs_blending, prim_metadata)
        needs_clipping_flag == IF needs_clipping THEN NEEDS_CLIPPING ELSE {}
        flags == IF transform_kind = "AxisAligned"
                 THEN AXIS_ALIGNED \cup needs_clipping_flag
                 ELSE needs_clipping_flag
    IN AlphaBatchKey(get_batch_kind(prim_metadata), flags, blend_mode,
                     get_color_textures(prim_metadata))

\* tiling.rs:594-623 and 713-741: the key of a Primitive item.
PrimitiveKey(item) ==
    PrimitiveKeyOf(clip_scroll_group_store[item.group], get_metadata(item.prim))

CompositeKey_of_blend == AlphaBatchKey("Blend", {}, <<"Alpha">>, no_texture)
CompositeKey == AlphaBatchKey("Composite", {}, <<"Alpha">>, no_texture)

\* tiling.rs:558-624: the key derived for an alpha item.
ItemKey(item) ==
    CASE item.type = "Blend" -> AlphaBatchKey("Blend", {}, <<"Alpha">>, no_texture)
      [] item.type = "HardwareComposite" ->
            AlphaBatchKey("HardwareComposite", {}, to_blend_mode(item.op), no_texture)
      [] item.type = "Composite" -> CompositeKey
      [] item.type = "Primitive" -> PrimitiveKey(item)

\* tiling.rs:558-624: the item_bounding_rect of an alpha item.
ItemRect(item) ==
    IF item.type = "Primitive"
    THEN prim_store[item.prim].bounding_rect
    ELSE stacking_context_store[item.sc].bounding_rect

\* PrimitiveBatchItem recorded in batch.items.
BatchItemOf(item) ==
    IF item.type = "Primitive"
    THEN [type |-> "Primitive", index |-> item.prim]
    ELSE [type |-> "StackingContext", index |-> item.sc]

BatchItemRect(bitem) ==
    IF bitem.type = "Primitive"
    THEN prim_store[bitem.index].bounding_rect
    ELSE stacking_context_store[bitem.index].bounding_rect

(***************************************************************************)
(* State.                                                                  *)
(*   AlphaBatcher.build: alpha_batches and opaque_batches are the two      *)
(*   lists it fills, cur_task the position of `for task in &mut            *)
(*   self.tasks`, phase the loop it is in, existing_opaque_batch_index     *)
(*   the opaque cursor.  The item lists of a task are revealed one item at *)
(*   a time as the loops reach them; processed records them in that order  *)
(*   and last describes the step just taken.                               *)
(*   RenderTaskCollection: render_task_data, dynamic_tasks.                *)
(*   RenderPass: pass_index, is_framebuffer, color_targets, alpha_targets. *)
(*   panicked: a panic!, expect, unwrap or failed assertion was reached.   *)
(*   debug_assertions: whether the build compiles debug_assert!.           *)
(*   step describes the last step of RenderPass.build or allocate, and     *)
(*   alloc_log lists the slots allocate has returned, in order.            *)
(***************************************************************************)
VARIABLES alpha_batches, opaque_batches, cur_task, phase,
          existing_opaque_batch_index, processed, last,
          render_task_data, dynamic_tasks,
          pass_index, is_framebuffer, color_targets, alpha_targets,
          panicked, debug_assertions, step, alloc_log

batch_vars == <<alpha_batches, opaque_batches, cur_task, phase,
                existing_opaque_batch_index, processed, last>>
tasks_vars == <<render_task_data, dynamic_tasks>>
pass_vars == <<pass_index, is_framebuffer, color_targets, alpha_targets, step, alloc_log>>
vars == <<alpha_batches, opaque_batches, cur_task, phase,
          existing_opaque_batch_index, processed, last,
          render_task_data, dynamic_tasks,
          pass_index, is_framebuffer, color_targets, alpha_targets,
          panicked, debug_assertions, step, alloc_log>>

(***************************************************************************)
(* RenderTaskId, RenderTaskKey and the look-ups of RenderTaskCollection.   *)
(* A RenderTaskKey is CachePrimitive(TextShadow(prim)), VerticalBlur(      *)
(* radius, prim), HorizontalBlur(radius, prim) or CacheMask(prim).         *)
(***************************************************************************)
RenderTaskKey(kind, radius, prim) == [kind |-> kind, radius |-> radius, prim |-> prim]
NoKey == RenderTaskKey("", 0, 0)

Static(index) == [type |-> "Static", index |-> index, key |-> NoKey]
Dynamic(key) == [type |-> "Dynamic", index |-> 0, key |-> key]

\* The collection as one value: self of the methods below.
RenderTasks == [render_task_data |-> render_task_data, dynamic_tasks |-> dynamic_tasks]

\* The look-up is made for the pass after the one asked for.
get_dynamic_allocation_next_pass(self, pass, key) ==
    IF <<key, pass + 1>> \in DOMAIN self.dynamic_tasks
    THEN [none |-> FALSE, rect |-> self.dynamic_tasks[<<key, pass + 1>>].rect]
    ELSE None
\* get_dynamic_allocation: Some(rect) or None.
get_dynamic_allocation(self, pass, key) ==
    IF <<key, pass>> \in DOMAIN self.dynamic_tasks
    THEN [none |-> FALSE, rect |-> self.dynamic_tasks[<<key, pass>>].rect]
    ELSE None

\* get_task_index panics on a dynamic key that is not registered for the pass.
get_task_index_panics(self, id, pass) ==
    id.type = "Dynamic" /\ <<id.key, pass>> \notin DOMAIN self.dynamic_tasks

\* The entry of the latest pass that registered the key, whatever the pass asked for.
get_task_index_latest_pass(self, id, pass) ==
    IF id.type = "Static" THEN id.index
    ELSE LET passes == { kp[2] : kp \in { kq \in DOMAIN self.dynamic_tasks : kq[1] = id.key } }
             latest == CHOOSE p \in passes : \A q \in passes : q <= p
         IN self.dynamic_tasks[<<id.key, latest>>].index
\* The entry of the first pass that registered the key, whatever the pass asked for.
get_task_index_first_pass(self, id, pass) ==
    IF id.type = "Static" THEN id.index
    ELSE LET passes == { kp[2] : kp \in { kq \in DOMAIN self.dynamic_tasks : kq[1] = id.key } }
             first == CHOOSE p \in passes : \A q \in passes : p <= q
         IN self.dynamic_tasks[<<id.key, first>>].index
get_task_index(self, id, pass) ==
    IF id.type = "Static" THEN id.index ELSE self.dynamic_tasks[<<id.key, pass>>].index

(***************************************************************************)
(* Instance encoders (add_prim_to_batch, add_blend_to_batch,               *)
(* add_hardware_composite_to_batch, PrimitiveBatch::new_composite).        *)
(***************************************************************************)
PrimitiveInstance(global_prim_id, task_index, clip_task_index, layer_index, sub_index, user_data, z_sort_index) ==
    [global_prim_id |-> global_prim_id, task_index |-> task_index,
     clip_task_index |-> clip_task_index, layer_index |-> layer_index,
     sub_index |-> sub_index, user_data |-> user_data, z_sort_index |-> z_sort_index]

\* add_prim_to_batch reaches a panic: a look-up of a task that is not
\* registered, or a batch kind the primitive encoder does not accept.
add_prim_panics(render_tasks, item, batch_kind, child_pass_index) ==
    LET metadata == get_metadata(item.prim) IN
    \/ metadata.clip_task # None /\ get_task_index_panics(render_tasks, metadata.clip_task, child_pass_index)
    \/ batch_kind \in {"Composite", "HardwareComposite", "Blend"}
    \/ /\ batch_kind \in {"BoxShadow", "CacheImage"}
       /\ \/ metadata.render_task = None
          \/ get_task_index_panics(render_tasks, metadata.render_task, child_pass_index)

\* The instances add_prim_to_batch pushes, selected by the kind of the
\* batch key.
add_prim_instances(render_tasks, item, batch_kind, task_index, child_pass_index) ==
    LET metadata == get_metadata(item.prim)
        packed_layer_index == AsI32(clip_scroll_group_store[item.group].packed_layer_index)
        global_prim_id == AsI32(item.prim - 1)
        clip_task_index == AsI32(IF metadata.clip_task # None
                                 THEN get_task_index(render_tasks, metadata.clip_task, child_pass_index)
                                 ELSE OPAQUE_TASK_INDEX)
        ti == AsI32(task_index)
        One(sub, ud) == PrimitiveInstance(global_prim_id, ti, clip_task_index,
                                          packed_layer_index, sub, ud, item.z)
        cache_task_index == AsI32(get_task_index(render_tasks, metadata.render_task, child_pass_index))
    IN CASE batch_kind = "Rectangle" -> << One(0, <<0, 0>>) >>
         [] batch_kind = "TextRun" ->
              [g \in 1..metadata.gpu_data_count |->
                  One(metadata.gpu_data_address + (g - 1),
                      <<metadata.resource_address + (g - 1), 0>>)]
         [] batch_kind \in {"Image", "ImageRect", "YuvImage"} ->
              << One(0, <<metadata.resource_address, 0>>) >>
         [] batch_kind = "Border" -> [s \in 1..8 |-> One(s - 1, <<0, 0>>)]
         [] batch_kind = "AlignedGradient" ->
              [g \in 1..(metadata.gpu_data_count - 1) |->
                  One(metadata.gpu_data_address + (g - 1), <<0, 0>>)]
         [] batch_kind \in {"AngleGradient", "RadialGradient"} ->
              << One(metadata.gpu_data_address, <<metadata.gpu_data_count, 0>>) >>
         [] batch_kind = "BoxShadow" ->
              [g \in 1..metadata.gpu_data_count |->
                  One(metadata.gpu_data_address + (g - 1), <<cache_task_index, 0>>)]
         [] batch_kind = "CacheImage" -> << One(0, <<cache_task_index, 0>>) >>

\* Filter code of add_blend_to_batch.
filter_mode(filter) ==
    CASE filter = "Blur" -> 0
      [] filter = "Contrast" -> 1
      [] filter = "Grayscale" -> 2
      [] filter = "HueRotate" -> 3
      [] filter = "Invert" -> 4
      [] filter = "Saturate" -> 5
      [] filter = "Sepia" -> 6
      [] filter = "Brightness" -> 7
      [] filter = "Opacity" -> 8

add_blend_instance(item, task_index) ==
    PrimitiveInstance(-1, AsI32(task_index), -1, -1, filter_mode(item.op),
                      <<AsI32(item.src), 0>>, item.z)

add_hardware_composite_instance(item, task_index) ==
    PrimitiveInstance(-1, AsI32(task_index), -1, -1, -1, <<AsI32(item.src), 0>>, item.z)

(***************************************************************************)
(* PrimitiveBatch.                                                         *)
(***************************************************************************)
new_instances(batch_kind, key) ==
    [key |-> key, data |-> "Instances", instances |-> <<>>, items |-> <<>>]

new_composite_of_prim_zero(item, task_index, backdrop_task, src_task_index) ==
    [key |-> CompositeKey,
     data |-> "Composite",
     instances |-> << PrimitiveInstance(0, AsI32(task_index), -1, 0, 0,
                                        <<AsI32(backdrop_task), AsI32(src_task_index)>>,
                                        item.z) >>,
     items |-> << BatchItemOf(item) >>]
new_composite(item, task_index, backdrop_task, src_task_index) ==
    [key |-> CompositeKey,
     data |-> "Composite",
     instances |-> << PrimitiveInstance(-1, AsI32(task_index), -1, -1, 0,
                                        <<AsI32(backdrop_task), AsI32(src_task_index)>>,
                                        item.z) >>,
     items |-> << BatchItemOf(item) >>]

\* batch.items.push(..) followed by the pushes into batch.data.
PushInto(batch, item, instances) ==
    [batch EXCEPT !.items = Append(@, BatchItemOf(item)),
                  !.instances = @ \o instances]

(***************************************************************************)
(* AlphaBatcher.build, the alpha loop (tiling.rs:557-706).                 *)
(***************************************************************************)
batch_intersects_never(batch, rect) == FALSE
\* tiling.rs:637-653: some item of the batch intersects the rect.
batch_intersects(batch, rect) ==
    \E k \in 1..Len(batch.items) : intersects(BatchItemRect(batch.items[k]), rect)

scan_batch_overlap_first(batch, key, rect) ==
    IF batch_intersects(batch, rect) THEN "stop"
    ELSE IF is_compatible_with(batch.key, key) THEN "reuse"
    ELSE "continue"
\* The scan stops at the first batch that is not compatible.
scan_batch_stop_at_incompatible(batch, key, rect) ==
    IF is_compatible_with(batch.key, key) THEN "reuse" ELSE "stop"
\* tiling.rs:631-653: one iteration of the merge scan.
scan_batch(batch, key, rect) ==
    IF is_compatible_with(batch.key, key) THEN "reuse"
    ELSE IF batch_intersects(batch, rect) THEN "stop"
    ELSE "continue"

\* The scan sees only the batches at the end of the list that the current
\* task created.
RECURSIVE ScanOwnBatches(_, _, _, _, _)
ScanOwnBatches(batches, i, remaining, key, rect) ==
    IF i = 0 \/ remaining = 0 THEN 0
    ELSE IF batches[i].instances[1].task_index # cur_task - 1 THEN 0
    ELSE LET r == scan_batch(batches[i], key, rect) IN
         IF r = "reuse" THEN i
         ELSE IF r = "stop" THEN 0
         ELSE ScanOwnBatches(batches, i - 1, remaining - 1, key, rect)

\* tiling.rs:627-654: batches are visited from the last one backwards, at
\* most `remaining` of them; the result is the 1-based index of the batch to
\* reuse, or 0 for alpha_batch_index = None.
RECURSIVE ScanBatches(_, _, _, _, _)
ScanBatches(batches, i, remaining, key, rect) ==
    IF i = 0 \/ remaining = 0 THEN 0
    ELSE LET r == scan_batch(batches[i], key, rect) IN
         IF r = "reuse" THEN i
         ELSE IF r = "stop" THEN 0
         ELSE ScanBatches(batches, i - 1, remaining - 1, key, rect)

\* The scan of the batches the current task created.
FindAlphaBatch_of_own_task(batches, key, rect) ==
    ScanOwnBatches(batches, Len(batches), MergeWindow, key, rect)
FindAlphaBatch(batches, key, rect) ==
    ScanBatches(batches, Len(batches), MergeWindow, key, rect)

\* The static index of the task being built (get_static_task_index of its
\* id): the n-th task of the batcher has id Static(n - 1).
TaskIndexOfCurrent == cur_task - 1

child_pass_index == pass_index - 1

Step(op, item, batch, len_before, created, cursor_before) ==
    [op |-> op, item |-> item, batch |-> batch, len_before |-> len_before,
     created |-> created, cursor_before |-> cursor_before]

\* `for task in &mut self.tasks`: the next task, with a fresh opaque cursor.
StartTask(max_tasks) ==
    /\ ~panicked
    /\ phase \in {"idle", "alpha", "opaque"}
    /\ cur_task < max_tasks
    /\ cur_task' = cur_task + 1
    /\ existing_opaque_batch_index' = 0
    /\ phase' = "alpha"
    /\ last' = Step("task", PrimitiveItem(0, 0), 0, 0, FALSE, existing_opaque_batch_index)
    /\ UNCHANGED <<alpha_batches, opaque_batches, processed>>
    /\ UNCHANGED <<tasks_vars, pass_vars, panicked, debug_assertions>>

\* One iteration of `for item in &task.alpha_items`.
AlphaItem(shape, max_items) ==
    /\ ~panicked
    /\ phase = "alpha"
    /\ Len(processed) < max_items
    /\ LET item == [shape EXCEPT !.z = Len(processed) + 1]
           task_index == TaskIndexOfCurrent
           n == Len(alpha_batches)
       IN IF item.type = "Composite"
          THEN /\ alpha_batches' = Append(alpha_batches,
                                          new_composite(item, task_index, item.backdrop, item.src))
               /\ last' = Step("alpha", item, n + 1, n, TRUE, existing_opaque_batch_index)
               /\ processed' = Append(processed, [list |-> "alpha", task |-> cur_task, item |-> item])
               /\ UNCHANGED panicked
          ELSE LET batch_key == ItemKey(item)
                   found == FindAlphaBatch(alpha_batches, batch_key, ItemRect(item))
                   batches1 == IF found = 0
                               THEN Append(alpha_batches,
                                           new_instances(batch_key.kind, batch_key))
                               ELSE alpha_batches
                   alpha_batch_index == IF found = 0 THEN n + 1 ELSE found
                   batch == batches1[alpha_batch_index]
               IN IF item.type = "Primitive"
                     /\ add_prim_panics(RenderTasks, item, batch.key.kind, child_pass_index)
                  THEN /\ panicked' = TRUE
                       /\ UNCHANGED <<alpha_batches, last, processed>>
                  ELSE LET instances ==
                               CASE item.type = "Blend" ->
                                       << add_blend_instance(item, task_index) >>
                                 [] item.type = "HardwareComposite" ->
                                       << add_hardware_composite_instance(item, task_index) >>
                                 [] item.type = "Primitive" ->
                                       add_prim_instances(RenderTasks, item, batch.key.kind, task_index,
                                                          child_pass_index)
                       IN /\ alpha_batches' =
                                [batches1 EXCEPT ![alpha_batch_index] = PushInto(@, item, instances)]
                          /\ last' = Step("alpha", item, alpha_batch_index, n, found = 0,
                                          existing_opaque_batch_index)
                          /\ processed' = Append(processed,
                                                 [list |-> "alpha", task |-> cur_task, item |-> item])
                          /\ UNCHANGED panicked
    /\ UNCHANGED <<opaque_batches, cur_task, phase, existing_opaque_batch_index>>
    /\ UNCHANGED <<tasks_vars, pass_vars, debug_assertions>>

(***************************************************************************)
(* AlphaBatcher.build, the opaque loop (tiling.rs:708-781).                *)
(***************************************************************************)
\* The list is walked from its first item.
rev_next_forward(items, remaining) == Len(items) - remaining + 1
\* tiling.rs:708: iter().rev() yields the last item not yet reached: with
\* `remaining` items to go, the item at that 1-based position.
rev_next(items, remaining) == remaining

\* tiling.rs:744-747: the cursor moves past the batches whose key is not
\* compatible; cursor is 0-based, batches[cursor + 1] is the batch it names.
RECURSIVE skip_incompatible(_, _, _)
skip_incompatible(batches, cursor, key) ==
    IF cursor < Len(batches) /\ ~is_compatible_with(batches[cursor + 1].key, key)
    THEN skip_incompatible(batches, cursor + 1, key)
    ELSE cursor

\* The batch at the cursor is passed over even when it is compatible.
advance_cursor_past_current(batches, cursor, key) ==
    skip_incompatible(batches, IF cursor < Len(batches) THEN cursor + 1 ELSE cursor, key)
advance_cursor_from_zero(batches, cursor, key) == skip_incompatible(batches, 0, key)
advance_cursor_to_end(batches, cursor, key) == Len(batches)
advance_cursor(batches, cursor, key) == skip_incompatible(batches, cursor, key)

\* tiling.rs:709-781: the body of the opaque loop for one item.
PlaceOpaqueItem(item) ==
    LET task_index == TaskIndexOfCurrent
        n == Len(opaque_batches)
        batch_key == PrimitiveKey(item)
        cursor == advance_cursor(opaque_batches, existing_opaque_batch_index, batch_key)
        batches1 == IF cursor = n
                    THEN Append(opaque_batches, new_instances(batch_key.kind, batch_key))
                    ELSE opaque_batches
    IN IF cursor >= Len(batches1)
          \/ add_prim_panics(RenderTasks, item, batches1[cursor + 1].key.kind, child_pass_index)
       THEN /\ panicked' = TRUE
            /\ UNCHANGED <<opaque_batches, existing_opaque_batch_index, last, processed, phase>>
       ELSE /\ existing_opaque_batch_index' = cursor
            /\ opaque_batches' =
                  [batches1 EXCEPT ![cursor + 1] =
                      PushInto(@, item,
                               add_prim_instances(RenderTasks, item, batches1[cursor + 1].key.kind,
                                                  task_index, child_pass_index))]
            /\ last' = Step("opaque", item, cursor + 1, n, cursor = n,
                            existing_opaque_batch_index)
            /\ processed' = Append(processed,
                                   [list |-> "opaque", task |-> cur_task, item |-> item])
            /\ phase' = "opaque"
            /\ UNCHANGED panicked

\* One iteration of `for item in task.opaque_items.iter().rev()`.
OpaqueItem(shape, max_items) ==
    /\ ~panicked
    /\ phase \in {"alpha", "opaque"}
    /\ Len(processed) < max_items
    /\ PlaceOpaqueItem([shape EXCEPT !.z = Len(processed) + 1])
    /\ UNCHANGED <<alpha_batches, cur_task>>
    /\ UNCHANGED <<tasks_vars, pass_vars, debug_assertions>>

\* tiling.rs:784-785: the two lists are handed to the batcher's fields.
BuildFinish ==
    /\ ~panicked
    /\ phase \in {"idle", "alpha", "opaque"}
    /\ phase' = "done"
    /\ last' = Step("finish", PrimitiveItem(0, 0), 0, 0, FALSE, existing_opaque_batch_index)
    /\ UNCHANGED <<alpha_batches, opaque_batches, cur_task, existing_opaque_batch_index, processed>>
    /\ UNCHANGED <<tasks_vars, pass_vars, panicked, debug_assertions>>

(***************************************************************************)
(* The alpha and opaque items a task may list.                             *)
(***************************************************************************)
AlphaShapes ==
    { PrimitiveItem(1, 1), PrimitiveItem(1, 2), PrimitiveItem(1, 3), PrimitiveItem(1, 4),
      PrimitiveItem(1, 5), BlendItem(1, 0), HardwareCompositeItem(2, 0, "Multiply"),
      CompositeItem(1, 0, 1) }

OpaqueShapes ==
    { PrimitiveItem(1, 6), PrimitiveItem(1, 7), PrimitiveItem(1, 8) }

\* A rectangle far from the stacking context of a run of composites.
CapShapes ==
    { PrimitiveItem(1, 1), CompositeItem(2, 0, 1) }

(***************************************************************************)
(* Initial states and specifications of AlphaBatcher.build.                *)
(***************************************************************************)
StaticTaskCount == 3

EmptyMap == [k \in {} |-> None]
NoStep == [op |-> "none", seq |-> 0]

\* RenderTaskData::empty().
EmptyTaskData == [kind |-> "", location |-> "", size |-> [width |-> 0, height |-> 0]]

\* AlphaBatcher::new, RenderTaskCollection::new(StaticTaskCount) and a pass
\* that holds no target yet.
InitCommon ==
    /\ alpha_batches = <<>>
    /\ opaque_batches = <<>>
    /\ cur_task = 0
    /\ phase = "idle"
    /\ existing_opaque_batch_index = 0
    /\ processed = <<>>
    /\ last = Step("none", PrimitiveItem(0, 0), 0, 0, FALSE, 0)
    /\ render_task_data = [i \in 1..StaticTaskCount |-> EmptyTaskData]
    /\ dynamic_tasks = EmptyMap
    /\ alpha_targets = <<>>
    /\ panicked = FALSE
    /\ step = NoStep
    /\ alloc_log = <<>>

\* The batcher of a target of pass 1, whose child pass is pass 0.
Init ==
    /\ InitCommon
    /\ pass_index = 1
    /\ is_framebuffer = FALSE
    /\ color_targets = <<>>
    /\ debug_assertions = TRUE

Next ==
    \/ StartTask(MaxTasks)
    \/ \E shape \in AlphaShapes : AlphaItem(shape, MaxItems)
    \/ \E shape \in OpaqueShapes : OpaqueItem(shape, MaxItems)
    \/ BuildFinish

Spec == Init /\ [][Next]_vars

\* One task whose alpha list is long enough to fill the merge window.
NextCap ==
    \/ StartTask(1)
    \/ \E shape \in CapShapes : AlphaItem(shape, MaxCapItems)
    \/ BuildFinish

SpecCap == Init /\ [][NextCap]_vars

(***************************************************************************)
(* Properties of AlphaBatcher.build.                                       *)
(***************************************************************************)
\* The item an instance was emitted for: items are numbered in the order the
\* loops reach them and the number travels in z_sort_index.
ItemOfInstance(inst) == processed[inst.z_sort_index].item

\* The alpha batch that holds the instances of the item numbered z.
AlphaBatchOf(z) ==
    CHOOSE b \in 1..Len(alpha_batches) :
        \E k \in 1..Len(alpha_batches[b].instances) :
            alpha_batches[b].instances[k].z_sort_index = z

\* Compatibility of two keys as the data model states it.
KeysCompatible(a, b) ==
    /\ a.kind = b.kind
    /\ a.flags = b.flags
    /\ a.blend_mode = b.blend_mode
    /\ \A t \in 1..3 : a.textures[t] = b.textures[t]
                       \/ a.textures[t] = Invalid \/ b.textures[t] = Invalid

\* C1: draw-order preservation.  For any two alpha items A, B with A before
\* B in input order whose bounding rects intersect, every instance of A
\* comes before every instance of B in the traversal of alpha_batches in
\* batch order and, inside a batch, in instance order.
C1_DrawOrderPreserved ==
    \A b1, b2 \in 1..Len(alpha_batches) :
        \A k1 \in 1..Len(alpha_batches[b1].instances) :
            \A k2 \in 1..Len(alpha_batches[b2].instances) :
                LET i1 == alpha_batches[b1].instances[k1]
                    i2 == alpha_batches[b2].instances[k2]
                IN (/\ i1.z_sort_index < i2.z_sort_index
                    /\ intersects(ItemRect(ItemOfInstance(i1)), ItemRect(ItemOfInstance(i2))))
                   => (b1 < b2 \/ (b1 = b2 /\ k1 < k2))

\* C1 witness: two intersecting items sit in different batches and the item
\* just processed was merged into a batch that is not the last one.
C1_Witness ==
    /\ last.op = "alpha"
    /\ ~last.created
    /\ last.batch < Len(alpha_batches)
    /\ \E b1, b2 \in 1..Len(alpha_batches) :
          /\ b1 < b2
          /\ \E k1 \in 1..Len(alpha_batches[b1].instances) :
                \E k2 \in 1..Len(alpha_batches[b2].instances) :
                    intersects(ItemRect(ItemOfInstance(alpha_batches[b1].instances[k1])),
                               ItemRect(ItemOfInstance(alpha_batches[b2].instances[k2])))

\* Items i and i + 1 are two distinct overlapping axis-aligned rectangles
\* with identical keys, consecutive in the alpha list of one task.
OverlappingRectanglePair(i) ==
    /\ i + 1 <= Len(processed)
    /\ processed[i].list = "alpha" /\ processed[i + 1].list = "alpha"
    /\ processed[i].task = processed[i + 1].task
    /\ LET a == processed[i].item
           b == processed[i + 1].item
       IN /\ a.type = "Primitive" /\ b.type = "Primitive"
          /\ a.prim # b.prim
          /\ prim_store[a.prim].prim_kind = "Rectangle"
          /\ prim_store[b.prim].prim_kind = "Rectangle"
          /\ clip_scroll_group_store[a.group].kind = "AxisAligned"
          /\ clip_scroll_group_store[b.group].kind = "AxisAligned"
          /\ ItemKey(a) = ItemKey(b)
          /\ intersects(ItemRect(a), ItemRect(b))

\* C2 as stated: two overlapping axis-aligned rectangles with identical keys,
\* consecutive alpha items of one task, end up in two separate batches.
C2_OverlapBlocksMerge ==
    \A i \in 1..Len(processed) :
        OverlappingRectanglePair(i) => AlphaBatchOf(i) # AlphaBatchOf(i + 1)

\* C2 amended: when the first rectangle is in the last alpha batch at the
\* moment the second is processed, the second is merged into that same
\* batch, its instance after the first's: a compatible batch is reused
\* before any overlap test.
C2_OverlapMergesIntoLastBatch ==
    LET n == Len(processed) IN
    (/\ last.op = "alpha"
     /\ n >= 2
     /\ OverlappingRectanglePair(n - 1)
     /\ AlphaBatchOf(n - 1) = last.len_before)
    => /\ ~last.created
       /\ last.batch = last.len_before
       /\ Len(alpha_batches) = last.len_before
       /\ LET b == alpha_batches[last.batch]
              m == Len(b.instances)
          IN /\ m >= 2
             /\ b.instances[m].z_sort_index = n
             /\ b.instances[m - 1].z_sort_index = n - 1

\* C2 witness: the second of two overlapping rectangles has just been
\* merged into the batch of the first.
C2_Witness ==
    /\ last.op = "alpha"
    /\ Len(processed) >= 2
    /\ OverlappingRectanglePair(Len(processed) - 1)
    /\ AlphaBatchOf(Len(processed) - 1) = last.len_before
    /\ AlphaBatchOf(Len(processed)) = AlphaBatchOf(Len(processed) - 1)

\* C3: batch-key equivalence.  In every alpha and opaque batch, the key
\* derived for the item of each instance is compatible with the batch key.
C3_BatchKeyEquivalence ==
    /\ \A b \in 1..Len(alpha_batches) :
          \A k \in 1..Len(alpha_batches[b].instances) :
              KeysCompatible(alpha_batches[b].key,
                             ItemKey(ItemOfInstance(alpha_batches[b].instances[k])))
    /\ \A b \in 1..Len(opaque_batches) :
          \A k \in 1..Len(opaque_batches[b].instances) :
              KeysCompatible(opaque_batches[b].key,
                             PrimitiveKey(ItemOfInstance(opaque_batches[b].instances[k])))

\* C3 witness: an alpha batch holds two items whose keys differ (merged
\* through the Invalid sentinel) and an opaque batch holds two items.
C3_Witness ==
    /\ \E b \in 1..Len(alpha_batches) :
          \E k1, k2 \in 1..Len(alpha_batches[b].instances) :
              ItemKey(ItemOfInstance(alpha_batches[b].instances[k1]))
                  # ItemKey(ItemOfInstance(alpha_batches[b].instances[k2]))
    /\ \E b \in 1..Len(opaque_batches) : Len(opaque_batches[b].items) >= 2

\* C8: cap on merge search.  An alpha item that is not a Composite changes
\* no batch that lies more than 10 positions from the end of the list at that
\* moment, and when no batch among the last 10 is compatible a new batch is
\* appended.
C8_CapOnMergeSearch ==
    [][ (processed' # processed /\ last'.op = "alpha" /\ last'.item.type # "Composite") =>
          LET n == Len(alpha_batches)
              key == ItemKey(last'.item)
          IN /\ \A i \in 1..n : alpha_batches'[i] # alpha_batches[i] => i > n - 10
             /\ (\A i \in 1..n : i > n - 10 => ~KeysCompatible(alpha_batches[i].key, key))
                => /\ Len(alpha_batches') = n + 1
                   /\ \A i \in 1..n : alpha_batches'[i] = alpha_batches[i]
                   /\ alpha_batches'[n + 1].items = << BatchItemOf(last'.item) >> ]_vars

\* C8 witness: a new batch was appended although a compatible batch lies
\* beyond the window and no batch inside the window intersects the item.
C8_Witness ==
    /\ last.op = "alpha"
    /\ last.created
    /\ last.item.type = "Primitive"
    /\ \E i \in 1..last.len_before :
          /\ i <= last.len_before - 10
          /\ KeysCompatible(alpha_batches[i].key, ItemKey(last.item))
    /\ \A i \in 1..last.len_before :
          \A k \in 1..Len(alpha_batches[i].items) :
              i > last.len_before - 10 =>
                  ~intersects(BatchItemRect(alpha_batches[i].items[k]), ItemRect(last.item))

\* C9: opaque monotonicity.  While the opaque items of one task are
\* processed the cursor never decreases, and each time it selects a batch it
\* is a valid index into the opaque batch list.
C9_OpaqueMonotonicity ==
    [][ /\ cur_task' = cur_task =>
              existing_opaque_batch_index' >= existing_opaque_batch_index
        /\ (phase = "alpha" \/ phase = "opaque") /\ cur_task' = cur_task =>
              ~panicked'
        /\ (processed' # processed /\ last'.op = "opaque") =>
              /\ existing_opaque_batch_index' < Len(opaque_batches')
              /\ last'.batch = existing_opaque_batch_index' + 1 ]_vars

\* C9 witness: an opaque item reused a batch at a cursor that had moved.
C9_Witness ==
    /\ last.op = "opaque"
    /\ ~last.created
    /\ existing_opaque_batch_index >= 1
    /\ existing_opaque_batch_index > last.cursor_before

\* The numbers of the opaque items processed so far.
OpaqueProcessed == { i \in 1..Len(processed) : processed[i].list = "opaque" }

\* C10: in the first task, on an empty opaque batch list, opaque primitive
\* items with identical keys yield exactly one opaque batch that holds the
\* instances of all of them, whether or not their rects overlap.
C10_IdenticalOpaqueItemsOneBatch ==
    (/\ cur_task = 1
     /\ OpaqueProcessed # {}
     /\ \A i, j \in OpaqueProcessed :
           PrimitiveKey(processed[i].item) = PrimitiveKey(processed[j].item))
    => /\ Len(opaque_batches) = 1
       /\ Len(opaque_batches[1].items) = Cardinality(OpaqueProcessed)
       /\ { opaque_batches[1].instances[k].z_sort_index :
              k \in 1..Len(opaque_batches[1].instances) } = OpaqueProcessed

\* C10 witness: two opaque rectangles that do not overlap, and two that do,
\* share the single opaque batch of the first task.
C10_Witness ==
    /\ cur_task = 1
    /\ Len(opaque_batches) = 1
    /\ \E i, j \in OpaqueProcessed :
          /\ i # j
          /\ PrimitiveKey(processed[i].item) = PrimitiveKey(processed[j].item)
          /\ ~intersects(ItemRect(processed[i].item), ItemRect(processed[j].item))
    /\ \E i, j \in OpaqueProcessed :
          /\ i # j
          /\ intersects(ItemRect(processed[i].item), ItemRect(processed[j].item))
    /\ \A i, j \in OpaqueProcessed :
          PrimitiveKey(processed[i].item) = PrimitiveKey(processed[j].item)

(***************************************************************************)
(* TextureAllocator and RenderTargetList (tiling.rs:877-996).              *)
(***************************************************************************)
MaxAllocs == 3
MaxPassTasks == 3
MaxPasses == 3

Size(w, h) == [width |-> w, height |-> h]

\* The uniform size of the targets of a pass.
TargetSize == Size(3, 2)

SomePoint(x, y) == [none |-> FALSE, x |-> x, y |-> y]
NoPoint == [none |-> TRUE, x |-> 0, y |-> 0]

RectOf(origin, size) == Rect(origin.x, origin.y, size.width, size.height)

\* euclid's Rect::union: an empty rect is absorbed, else the bounding box.
Min(a, b) == IF a < b THEN a ELSE b
Max(a, b) == IF a > b THEN a ELSE b
union(self, other) ==
    IF self.w = 0 /\ self.h = 0 THEN other
    ELSE IF other.w = 0 /\ other.h = 0 THEN self
    ELSE LET x0 == Min(self.x, other.x)
             y0 == Min(self.y, other.y)
             x1 == Max(self.x + self.w, other.x + other.w)
             y1 == Max(self.y + self.h, other.y + other.h)
         IN Rect(x0, y0, x1 - x0, y1 - y0)

\* TexturePage.allocate, the page allocator of one target: any origin at
\* which the size lies inside the page and apart from what the page holds;
\* absent when there is no such origin, and possibly absent on a page that
\* already holds something (the placement policy is not fixed).
FreeOrigins(allocs, page_size, size) ==
    { SomePoint(x, y) : x \in 0..(page_size.width - size.width),
                        y \in 0..(page_size.height - size.height) }
    \ { o \in { SomePoint(x, y) : x \in 0..(page_size.width - size.width),
                                   y \in 0..(page_size.height - size.height) } :
          \E k \in 1..Len(allocs) : intersects(allocs[k], RectOf(o, size)) }

page_allocate(allocs, page_size, size) ==
    FreeOrigins(allocs, page_size, size)
    \cup (IF Len(allocs) > 0 \/ FreeOrigins(allocs, page_size, size) = {}
          THEN {NoPoint} ELSE {})

\* TextureAllocator::new inside ColorRenderTarget::new / AlphaRenderTarget::new.
new_color_target ==
    [allocs |-> <<>>, used_rect |-> Rect(0, 0, 0, 0),
     alpha_batcher_tasks |-> <<>>, isolate_clears |-> <<>>,
     vertical_blurs |-> <<>>, horizontal_blurs |-> <<>>,
     box_shadow_cache_prims |-> <<>>, text_run_cache_prims |-> <<>>,
     text_run_textures |-> no_texture, readbacks |-> <<>>,
     rectangles |-> <<>>, images |-> [t \in {} |-> <<>>]]

new_alpha_target ==
    [allocs |-> <<>>, used_rect |-> Rect(0, 0, 0, 0),
     alpha_batcher_tasks |-> <<>>, isolate_clears |-> <<>>,
     vertical_blurs |-> <<>>, horizontal_blurs |-> <<>>,
     box_shadow_cache_prims |-> <<>>, text_run_cache_prims |-> <<>>,
     text_run_textures |-> no_texture, readbacks |-> <<>>,
     rectangles |-> <<>>, images |-> [t \in {} |-> <<>>]]

TextureAllocator_allocate_unchecked(target, size) ==
    { [origin |-> IF o.none /\ Len(target.allocs) = 0 THEN SomePoint(0, 0) ELSE o,
       target |-> IF o.none /\ Len(target.allocs) > 0 THEN target
                  ELSE [target EXCEPT !.allocs = Append(@, RectOf(SomePoint(0, 0), size)),
                                      !.used_rect = union(RectOf(SomePoint(0, 0), size), @)]] :
        o \in page_allocate(target.allocs, TargetSize, size) }
\* used_rect is set to the rect just allocated.
TextureAllocator_allocate_last_rect(target, size) ==
    { [origin |-> o,
       target |-> IF o.none THEN target
                  ELSE [target EXCEPT !.allocs = Append(@, RectOf(o, size)),
                                      !.used_rect = RectOf(o, size)]] :
        o \in page_allocate(target.allocs, TargetSize, size) }
\* TextureAllocator::allocate: the outcomes [origin, target] on one target;
\* on success used_rect grows to the union with the new rect.
TextureAllocator_allocate(target, size) ==
    { [origin |-> o,
       target |-> IF o.none THEN target
                  ELSE [target EXCEPT !.allocs = Append(@, RectOf(o, size)),
                                      !.used_rect = union(RectOf(o, size), @)]] :
        o \in page_allocate(target.allocs, TargetSize, size) }

\* RenderTargetList::new.
RenderTargetList_new(fresh, create_initial_target) ==
    IF create_initial_target THEN << fresh >> ELSE <<>>

target_index_first(targets) == 0
\* tiling.rs:994: RenderTargetIndex(self.targets.len() - 1).
target_index_of(targets) == Len(targets) - 1

push_unallocated_target(targets, new_target, fresh) == Append(targets, fresh)
push_new_target_in_front(targets, new_target, fresh) == << new_target >> \o targets
\* tiling.rs:989: self.targets.push(new_target).
push_new_target(targets, new_target, fresh) == Append(targets, new_target)

\* RenderTargetList::allocate: the outcomes [panic, targets, origin, index].
\* The last target is tried; when there is none or it refuses, a new target
\* is made, must accept the size (expect) and is pushed.
RenderTargetList_allocate(targets, fresh, alloc_size) ==
    LET n == Len(targets)
        existing == IF n = 0
                    THEN { [origin |-> NoPoint, target |-> fresh] }
                    ELSE TextureAllocator_allocate(targets[n], alloc_size)
        Outcomes(e) ==
            IF ~e.origin.none
            THEN { LET targets1 == [targets EXCEPT ![n] = e.target]
                   IN [panic |-> FALSE, targets |-> targets1, origin |-> e.origin,
                       index |-> target_index_of(targets1)] }
            ELSE { IF f.origin.none
                   THEN [panic |-> TRUE, targets |-> targets, origin |-> NoPoint, index |-> 0]
                   ELSE LET targets1 == push_new_target(targets, f.target, fresh)
                        IN [panic |-> FALSE, targets |-> targets1, origin |-> f.origin,
                            index |-> target_index_of(targets1)] :
                   f \in TextureAllocator_allocate(fresh, alloc_size) }
    IN UNION { Outcomes(e) : e \in existing }

PassStep(op, seq, task, skipped, allocated, origin, target_index, task_index, dispatched) ==
    [op |-> op, seq |-> seq, task |-> task, skipped |-> skipped, allocated |-> allocated,
     origin |-> origin, target_index |-> target_index, task_index |-> task_index,
     dispatched |-> dispatched]

LogEntry(pass, kind, id, rect, index) ==
    [pass |-> pass, kind |-> kind, id |-> id, rect |-> rect, index |-> index]

\* RenderPass::allocate_target called on its own: one allocation in the
\* color or the alpha list of the pass.
AllocateTarget(kind, alloc_size) ==
    /\ ~panicked
    /\ Len(alloc_log) < MaxAllocs
    /\ \E r \in RenderTargetList_allocate(
                    IF kind = "Color" THEN color_targets ELSE alpha_targets,
                    IF kind = "Color" THEN new_color_target ELSE new_alpha_target,
                    alloc_size) :
          /\ panicked' = r.panic
          /\ color_targets' = IF kind = "Color" THEN r.targets ELSE color_targets
          /\ alpha_targets' = IF kind = "Alpha" THEN r.targets ELSE alpha_targets
          /\ alloc_log' = IF r.panic THEN alloc_log
                          ELSE Append(alloc_log,
                                      LogEntry(pass_index, kind, Static(0),
                                               RectOf(r.origin, alloc_size), r.index))
          /\ step' = PassStep("allocate", Len(alloc_log) + 1,
                              [kind |-> kind, size |-> alloc_size], FALSE,
                              ~r.panic, r.origin, r.index, 0, FALSE)
    /\ UNCHANGED <<pass_index, is_framebuffer, debug_assertions>>
    /\ UNCHANGED <<batch_vars, tasks_vars>>

\* The sizes asked for: some fit a target, one does not.
AllocSizes == { Size(1, 1), Size(3, 1), Size(2, 2), Size(3, 2), Size(4, 1) }

\* RenderPass::new(0, is_framebuffer, TargetSize) with an empty collection.
InitAlloc ==
    /\ InitCommon
    /\ pass_index = 0
    /\ is_framebuffer \in BOOLEAN
    /\ color_targets = RenderTargetList_new(new_color_target, is_framebuffer)
    /\ debug_assertions = TRUE

NextAlloc ==
    \/ \E size \in AllocSizes : AllocateTarget("Color", size)
    \/ \E size \in AllocSizes : AllocateTarget("Alpha", size)

SpecAlloc == InitAlloc /\ [][NextAlloc]_vars

(***************************************************************************)
(* Properties of RenderTargetList.allocate.                                *)
(***************************************************************************)
Area(rect) == rect.w * rect.h
TargetArea == TargetSize.width * TargetSize.height

TargetsOf(kind) == IF kind = "Color" THEN color_targets ELSE alpha_targets

\* The positions in alloc_log of the allocations made in a list.
AllocsOf(kind) == { i \in 1..Len(alloc_log) : alloc_log[i].kind = kind }

RECURSIVE AreaSum(_)
AreaSum(S) ==
    IF S = {} THEN 0
    ELSE LET i == CHOOSE j \in S : TRUE IN Area(alloc_log[i].rect) + AreaSum(S \ {i})

InsideTarget(rect) ==
    /\ rect.x >= 0 /\ rect.y >= 0
    /\ rect.x + rect.w <= TargetSize.width
    /\ rect.y + rect.h <= TargetSize.height

RectsOverlap(a, b) ==
    /\ a.x < b.x + b.w /\ b.x < a.x + a.w
    /\ a.y < b.y + b.h /\ b.y < a.y + a.h

\* C6: target overflow.  When the area allocated in a list exceeds the area
\* of one target the list holds at least 2 targets; every allocation lies
\* inside the target whose index was returned and apart from every earlier
\* allocation in that target.
C6_TargetOverflow ==
    \A kind \in {"Color", "Alpha"} :
        /\ AreaSum(AllocsOf(kind)) > TargetArea => Len(TargetsOf(kind)) >= 2
        /\ \A i \in AllocsOf(kind) :
              /\ alloc_log[i].index \in 0..(Len(TargetsOf(kind)) - 1)
              /\ InsideTarget(alloc_log[i].rect)
              /\ \E k \in 1..Len(TargetsOf(kind)[alloc_log[i].index + 1].allocs) :
                    TargetsOf(kind)[alloc_log[i].index + 1].allocs[k] = alloc_log[i].rect
              /\ \A j \in AllocsOf(kind) :
                    (j < i /\ alloc_log[j].index = alloc_log[i].index)
                    => ~RectsOverlap(alloc_log[j].rect, alloc_log[i].rect)

\* C6 witness: the color list overflowed into a second target and one of its
\* targets holds two allocations.
C6_Witness ==
    /\ AreaSum(AllocsOf("Color")) > TargetArea
    /\ Len(color_targets) >= 2
    /\ \E i, j \in AllocsOf("Color") : i < j /\ alloc_log[i].index = alloc_log[j].index

\* An allocation larger than half a target.
LargerThanHalf(rect) == 2 * Area(rect) > TargetArea

\* C7: starting from an empty color list, n allocations that are each
\* larger than half a target and no larger than a target produce exactly n
\* targets, each carrying exactly one allocation.
C7_OneTargetPerLargeAllocation ==
    (/\ ~is_framebuffer
     /\ \A i \in AllocsOf("Color") : LargerThanHalf(alloc_log[i].rect))
    => /\ Len(color_targets) = Cardinality(AllocsOf("Color"))
       /\ \A t \in 1..Len(color_targets) :
             /\ Len(color_targets[t].allocs) = 1
             /\ \E i \in AllocsOf("Color") :
                   /\ alloc_log[i].index = t - 1
                   /\ color_targets[t].allocs[1] = alloc_log[i].rect
                   /\ color_targets[t].used_rect = alloc_log[i].rect

\* C7 witness: three large allocations, three color targets.
C7_Witness ==
    /\ ~is_framebuffer
    /\ step.op = "allocate"
    /\ Cardinality(AllocsOf("Color")) >= 3
    /\ \A i \in AllocsOf("Color") : LargerThanHalf(alloc_log[i].rect)
    /\ Len(color_targets) >= 3

(***************************************************************************)
(* RenderTask, RenderTaskCollection::add and the add_task of the targets.  *)
(***************************************************************************)
NoOrigin == [none |-> TRUE, x |-> 0, y |-> 0, target |-> 0]
SomeOrigin(point, target_index) ==
    [none |-> FALSE, x |-> point.x, y |-> point.y, target |-> target_index]

Fixed == [type |-> "Fixed", origin |-> NoOrigin, size |-> Size(0, 0)]
DynamicLocation(origin, size) == [type |-> "Dynamic", origin |-> origin, size |-> size]

\* A clip of a CacheMask task: (PackedLayerIndex, MaskCacheInfo).
Clip(layer, start, count, image) ==
    [layer |-> layer, clip_range_start |-> start, effective_clip_count |-> count,
     image |-> image]
NoImage == [none |-> TRUE, texture |-> Invalid, address |-> 0]

\* A task: id, kind and location, with the operands of its kind
\* (CachePrimitive(prim), VerticalBlur(radius, prim), HorizontalBlur(radius,
\* prim), Alpha{isolate_clear}, Readback(device_rect), CacheMask{clips,
\* geometry_kind}).
RenderTask(id, kind, location, prim, radius, isolate_clear) ==
    [id |-> id, kind |-> kind, location |-> location, prim |-> prim,
     radius |-> radius, isolate_clear |-> isolate_clear, device_rect |-> RB,
     clips |-> << Clip(1, 10, 2, NoImage) >>, geometry_kind |-> "Default"]

\* RenderTask::target_kind: mask tasks draw into alpha targets, every other
\* kind into color targets.
target_kind(task) == IF task.kind = "CacheMask" THEN "Alpha" ELSE "Color"

\* task.write_task_data(): the record stored for a task.
write_task_data(task) ==
    [kind |-> task.kind, location |-> task.location.type, size |-> task.location.size]

\* The index is taken after the push instead of before it.
add_index_after_push(self, task, pass) ==
    IF task.id.type = "Static"
    THEN IF task.id.index >= Len(self.render_task_data)
         THEN [panic |-> TRUE, self |-> self, index |-> 0]
         ELSE [panic |-> FALSE,
               self |-> [self EXCEPT !.render_task_data[task.id.index + 1] =
                                          write_task_data(task)],
               index |-> task.id.index]
    ELSE LET index == Len(self.render_task_data) + 1
             key == <<task.id.key, pass>>
         IN IF \/ debug_assertions /\ key \in DOMAIN self.dynamic_tasks
               \/ task.location.type = "Fixed"
               \/ task.location.origin.none
            THEN [panic |-> TRUE, self |-> self, index |-> 0]
            ELSE [panic |-> FALSE,
                  self |-> [render_task_data |->
                                Append(self.render_task_data, write_task_data(task)),
                            dynamic_tasks |->
                                [k \in DOMAIN self.dynamic_tasks \cup {key} |->
                                    IF k = key
                                    THEN [index |-> index,
                                          rect |-> RectOf(task.location.origin,
                                                          task.location.size)]
                                    ELSE self.dynamic_tasks[k]]],
                  index |-> index]

\* The insert is made without the assertion before it.
add_without_assertion(self, task, pass) ==
    IF task.id.type = "Static"
    THEN IF task.id.index >= Len(self.render_task_data)
         THEN [panic |-> TRUE, self |-> self, index |-> 0]
         ELSE [panic |-> FALSE,
               self |-> [self EXCEPT !.render_task_data[task.id.index + 1] =
                                          write_task_data(task)],
               index |-> task.id.index]
    ELSE LET index == Len(self.render_task_data)
             key == <<task.id.key, pass>>
         IN IF \/ task.location.type = "Fixed"
               \/ task.location.origin.none
            THEN [panic |-> TRUE, self |-> self, index |-> 0]
            ELSE [panic |-> FALSE,
                  self |-> [render_task_data |->
                                Append(self.render_task_data, write_task_data(task)),
                            dynamic_tasks |->
                                [k \in DOMAIN self.dynamic_tasks \cup {key} |->
                                    IF k = key
                                    THEN [index |-> index,
                                          rect |-> RectOf(task.location.origin,
                                                          task.location.size)]
                                    ELSE self.dynamic_tasks[k]]],
                  index |-> index]

\* RenderTaskCollection::add: [panic, self, index].
add(self, task, pass) ==
    IF task.id.type = "Static"
    THEN IF task.id.index >= Len(self.render_task_data)
         THEN [panic |-> TRUE, self |-> self, index |-> 0]
         ELSE [panic |-> FALSE,
               self |-> [self EXCEPT !.render_task_data[task.id.index + 1] =
                                          write_task_data(task)],
               index |-> task.id.index]
    ELSE LET index == Len(self.render_task_data)
             key == <<task.id.key, pass>>
         IN IF \/ debug_assertions /\ key \in DOMAIN self.dynamic_tasks
               \/ task.location.type = "Fixed"
               \/ task.location.origin.none
            THEN [panic |-> TRUE, self |-> self, index |-> 0]
            ELSE [panic |-> FALSE,
                  self |-> [render_task_data |->
                                Append(self.render_task_data, write_task_data(task)),
                            dynamic_tasks |->
                                [k \in DOMAIN self.dynamic_tasks \cup {key} |->
                                    IF k = key
                                    THEN [index |-> index,
                                          rect |-> RectOf(task.location.origin,
                                                          task.location.size)]
                                    ELSE self.dynamic_tasks[k]]],
                  index |-> index]

BlurCommand(task_id, src_task_id, blur_direction) ==
    [task_id |-> task_id, src_task_id |-> src_task_id, blur_direction |-> blur_direction,
     padding |-> 0]

\* BlurDirection as i32.
Horizontal == 0
Vertical == 1

\* ColorRenderTarget::add_task: [panic, target].
ColorRenderTarget_add_task(target, task, render_tasks, pass) ==
    LET Panic == [panic |-> TRUE, target |-> target]
        Ok(t) == [panic |-> FALSE, target |-> t]
        child == pass - 1
    IN CASE task.kind = "Alpha" ->
              LET t1 == [target EXCEPT !.alpha_batcher_tasks = Append(@, task.id)]
              IN IF task.isolate_clear
                 THEN IF task.location.type = "Fixed" \/ task.location.origin.none
                      THEN [panic |-> TRUE, target |-> t1]
                      ELSE Ok([t1 EXCEPT !.isolate_clears =
                                 Append(@, RectOf(task.location.origin, task.location.size))])
                 ELSE Ok(t1)
         [] task.kind = "VerticalBlur" ->
              LET src_id == Dynamic(RenderTaskKey("CachePrimitive", 0, task.prim))
              IN IF \/ get_task_index_panics(render_tasks, task.id, pass)
                    \/ get_task_index_panics(render_tasks, src_id, child)
                 THEN Panic
                 ELSE Ok([target EXCEPT !.vertical_blurs =
                             Append(@, BlurCommand(
                                 AsI32(get_task_index(render_tasks, task.id, pass)),
                                 AsI32(get_task_index(render_tasks, src_id, child)),
                                 Vertical))])
         [] task.kind = "HorizontalBlur" ->
              LET src_id == Dynamic(RenderTaskKey("VerticalBlur", task.radius, task.prim))
              IN IF \/ get_task_index_panics(render_tasks, task.id, pass)
                    \/ get_task_index_panics(render_tasks, src_id, child)
                 THEN Panic
                 ELSE Ok([target EXCEPT !.horizontal_blurs =
                             Append(@, BlurCommand(
                                 AsI32(get_task_index(render_tasks, task.id, pass)),
                                 AsI32(get_task_index(render_tasks, src_id, child)),
                                 Horizontal))])
         [] task.kind = "CachePrimitive" ->
              LET prim_metadata == get_metadata(task.prim)
                  textures == get_color_textures(prim_metadata)
              IN IF get_task_index_panics(render_tasks, task.id, pass)
                 THEN Panic
                 ELSE LET ti == AsI32(get_task_index(render_tasks, task.id, pass))
                          Inst(sub, ud) == PrimitiveInstance(AsI32(task.prim - 1), ti, 0, 0,
                                                             sub, ud, 0)
                      IN CASE prim_metadata.prim_kind = "BoxShadow" ->
                                Ok([target EXCEPT !.box_shadow_cache_prims =
                                       Append(@, Inst(0, <<0, 0>>))])
                           [] prim_metadata.prim_kind = "TextRun" ->
                                IF debug_assertions
                                   /\ \/ prim_metadata.blur_radius = 0
                                      \/ textures[1] = Invalid
                                      \/ ~(target.text_run_textures[1] = Invalid
                                           \/ target.text_run_textures[1] = textures[1])
                                THEN Panic
                                ELSE Ok([target EXCEPT
                                           !.text_run_textures = textures,
                                           !.text_run_cache_prims = @ \o
                                              [g \in 1..prim_metadata.gpu_data_count |->
                                                 Inst(prim_metadata.gpu_data_address + (g - 1),
                                                      <<prim_metadata.resource_address + (g - 1),
                                                        0>>)]])
                           [] OTHER -> Panic
         [] task.kind = "CacheMask" -> Panic
         [] task.kind = "Readback" ->
              Ok([target EXCEPT !.readbacks = Append(@, task.device_rect)])

(***************************************************************************)
(* ClipBatcher and AlphaRenderTarget (tiling.rs:789-868, 1165-1208).       *)
(***************************************************************************)
CLIP_DATA_GPU_SIZE == 5

CacheClipInstance(task_id, layer_index, address, segment) ==
    [task_id |-> task_id, layer_index |-> layer_index, address |-> address,
     segment |-> segment]

CornerSegments == << "TopLeftCorner", "TopRightCorner", "BottomLeftCorner", "BottomRightCorner" >>

\* The address advances by one per clip index.
clip_rectangles_stride_one(task_index, clip, geometry_kind) ==
    LET offset(clip_index) == clip.clip_range_start + AsI32(clip_index)
        Inst(clip_index, segment) ==
            CacheClipInstance(AsI32(task_index), AsI32(clip.layer), offset(clip_index), segment)
    IN IF geometry_kind = "Default"
       THEN [i \in 1..clip.effective_clip_count |-> Inst(i - 1, "All")]
       ELSE [j \in 1..(4 * clip.effective_clip_count) |->
                Inst((j - 1) \div 4, CornerSegments[((j - 1) % 4) + 1])]
\* tiling.rs:820-855: the rectangle instances of one clip.
clip_rectangles(task_index, clip, geometry_kind) ==
    LET offset(clip_index) == clip.clip_range_start + AsI32(CLIP_DATA_GPU_SIZE * clip_index)
        Inst(clip_index, segment) ==
            CacheClipInstance(AsI32(task_index), AsI32(clip.layer), offset(clip_index), segment)
    IN IF geometry_kind = "Default"
       THEN [i \in 1..clip.effective_clip_count |-> Inst(i - 1, "All")]
       ELSE [j \in 1..(4 * clip.effective_clip_count) |->
                Inst((j - 1) \div 4, CornerSegments[((j - 1) % 4) + 1])]

\* ClipBatcher::add on the clip batcher fields of an alpha target.
RECURSIVE ClipBatcher_add(_, _, _, _)
ClipBatcher_add(self, task_index, clips, geometry_kind) ==
    IF clips = <<>> THEN self
    ELSE LET clip == Head(clips)
             self1 == [self EXCEPT !.rectangles =
                                       @ \o clip_rectangles(task_index, clip, geometry_kind)]
             inst == CacheClipInstance(AsI32(task_index), AsI32(clip.layer),
                                       clip.image.address, 0)
             self2 == IF clip.image.none THEN self1
                      ELSE [self1 EXCEPT !.images =
                              [t \in DOMAIN self1.images \cup {clip.image.texture} |->
                                  IF t = clip.image.texture
                                  THEN (IF t \in DOMAIN self1.images
                                        THEN self1.images[t] ELSE <<>>) \o <<inst>>
                                  ELSE self1.images[t]]]
         IN ClipBatcher_add(self2, task_index, Tail(clips), geometry_kind)

\* The alpha target takes a Readback task like a color target does.
AlphaRenderTarget_add_task_takes_readback(target, task, render_tasks, pass) ==
    IF task.kind = "Readback"
    THEN [panic |-> FALSE,
          target |-> [target EXCEPT !.readbacks = Append(@, task.device_rect)]]
    ELSE IF task.kind # "CacheMask" \/ get_task_index_panics(render_tasks, task.id, pass)
    THEN [panic |-> TRUE, target |-> target]
    ELSE [panic |-> FALSE,
          target |-> ClipBatcher_add(target, get_task_index(render_tasks, task.id, pass),
                                     task.clips, task.geometry_kind)]

\* AlphaRenderTarget::add_task: [panic, target].
AlphaRenderTarget_add_task(target, task, render_tasks, pass) ==
    IF task.kind # "CacheMask" \/ get_task_index_panics(render_tasks, task.id, pass)
    THEN [panic |-> TRUE, target |-> target]
    ELSE [panic |-> FALSE,
          target |-> ClipBatcher_add(target, get_task_index(render_tasks, task.id, pass),
                                     task.clips, task.geometry_kind)]

\* The first target of the list takes the task.
RenderTargetList_add_task_to_first(targets, kind, task, render_tasks, pass) ==
    IF Len(targets) = 0
    THEN [panic |-> TRUE, targets |-> targets]
    ELSE LET r == IF kind = "Color"
                  THEN ColorRenderTarget_add_task(targets[1], task, render_tasks, pass)
                  ELSE AlphaRenderTarget_add_task(targets[1], task, render_tasks, pass)
         IN [panic |-> r.panic, targets |-> [targets EXCEPT ![1] = r.target]]
\* An empty list gets a new target, which takes the task.
RenderTargetList_add_task_or_create(targets, kind, task, render_tasks, pass) ==
    LET targets1 == IF Len(targets) = 0
                    THEN << IF kind = "Color" THEN new_color_target ELSE new_alpha_target >>
                    ELSE targets
        r == IF kind = "Color"
             THEN ColorRenderTarget_add_task(targets1[Len(targets1)], task, render_tasks, pass)
             ELSE AlphaRenderTarget_add_task(targets1[Len(targets1)], task, render_tasks, pass)
    IN [panic |-> r.panic, targets |-> [targets1 EXCEPT ![Len(targets1)] = r.target]]
\* RenderTargetList::add_task: the last target takes the task; unwrap
\* panics on an empty list.  [panic, targets].
RenderTargetList_add_task(targets, kind, task, render_tasks, pass) ==
    IF Len(targets) = 0
    THEN [panic |-> TRUE, targets |-> targets]
    ELSE LET r == IF kind = "Color"
                  THEN ColorRenderTarget_add_task(targets[Len(targets)], task, render_tasks, pass)
                  ELSE AlphaRenderTarget_add_task(targets[Len(targets)], task, render_tasks, pass)
         IN [panic |-> r.panic, targets |-> [targets EXCEPT ![Len(targets)] = r.target]]

(***************************************************************************)
(* RenderPass::build (tiling.rs:1277-1321), one task of the queue per      *)
(* step.  The queue is revealed task by task as the loop reaches it.       *)
(***************************************************************************)
BuildResult(panic, task, targets, render_tasks, skipped, allocated, target_index, task_index, dispatched) ==
    [panic |-> panic, task |-> task, targets |-> targets, render_tasks |-> render_tasks,
     skipped |-> skipped, allocated |-> allocated,
     target_index |-> target_index, task_index |-> task_index, dispatched |-> dispatched]

is_duplicate_never(task, registered) == FALSE
is_duplicate_same_size(task, registered) ==
    ~registered.none
    /\ registered.rect.w = task.location.size.width
    /\ registered.rect.h = task.location.size.height
\* tiling.rs:1299: a task whose (key, pass) is registered is a duplicate.
is_duplicate(task, registered) == ~registered.none

\* tiling.rs:1300: debug_assert_eq!(rect.size, *size) fails.
size_assertion_fails(task, registered) ==
    debug_assertions
    /\ ~(registered.rect.w = task.location.size.width
         /\ registered.rect.h = task.location.size.height)

\* tiling.rs:1315-1316: render_tasks.add, then the add_task of the list.
RegisterAndDispatch(task, kind, targets, allocated, index) ==
    LET added == add(RenderTasks, task, pass_index) IN
    IF added.panic
    THEN BuildResult(TRUE, task, targets, added.self, FALSE, allocated, index, 0, FALSE)
    ELSE LET d == RenderTargetList_add_task(targets, kind, task, added.self, pass_index)
         IN BuildResult(d.panic, task, d.targets, added.self, FALSE, allocated, index,
                        added.index, ~d.panic)

\* The outcomes of one iteration of `for mut task in tasks`.
BuildOutcomes(task) ==
    LET kind == target_kind(task)
        targets == IF kind = "Color" THEN color_targets ELSE alpha_targets
        fresh == IF kind = "Color" THEN new_color_target ELSE new_alpha_target
        registered == IF task.id.type = "Dynamic"
                      THEN get_dynamic_allocation(RenderTasks, pass_index, task.id.key)
                      ELSE None
    IN IF task.location.type = "Fixed"
       THEN { RegisterAndDispatch(task, kind, targets, FALSE, 0) }
       ELSE IF task.id.type = "Dynamic" /\ is_duplicate(task, registered)
       THEN { BuildResult(size_assertion_fails(task, registered), task, targets, RenderTasks,
                          ~size_assertion_fails(task, registered), FALSE, 0, 0, FALSE) }
       ELSE { IF a.panic
              THEN BuildResult(TRUE, task, a.targets, RenderTasks, FALSE, FALSE, 0, 0, FALSE)
              ELSE RegisterAndDispatch(
                       [task EXCEPT !.location.origin = SomeOrigin(a.origin, a.index)],
                       kind, a.targets, TRUE, a.index) :
              a \in RenderTargetList_allocate(targets, fresh, task.location.size) }

BuildTask(task) ==
    /\ ~panicked
    /\ step.seq < MaxPassTasks
    /\ \E r \in BuildOutcomes(task) :
          /\ panicked' = r.panic
          /\ color_targets' = IF target_kind(task) = "Color" THEN r.targets ELSE color_targets
          /\ alpha_targets' = IF target_kind(task) = "Alpha" THEN r.targets ELSE alpha_targets
          /\ render_task_data' = r.render_tasks.render_task_data
          /\ dynamic_tasks' = r.render_tasks.dynamic_tasks
          /\ alloc_log' = IF r.allocated
                          THEN Append(alloc_log,
                                      LogEntry(pass_index, target_kind(task), task.id,
                                               RectOf(r.task.location.origin,
                                                      task.location.size),
                                               r.target_index))
                          ELSE alloc_log
          /\ step' = PassStep("build", step.seq + 1, r.task, r.skipped, r.allocated,
                              r.task.location.origin, r.target_index, r.task_index,
                              r.dispatched)
    /\ UNCHANGED <<pass_index, is_framebuffer, debug_assertions>>
    /\ UNCHANGED batch_vars

\* RenderPass::new for the next pass of the frame, built after this one.
NextPass ==
    /\ ~panicked
    /\ pass_index + 1 < MaxPasses
    /\ pass_index' = pass_index + 1
    /\ is_framebuffer' \in BOOLEAN
    /\ color_targets' = RenderTargetList_new(new_color_target, is_framebuffer')
    /\ alpha_targets' = RenderTargetList_new(new_alpha_target, FALSE)
    /\ step' = PassStep("new_pass", step.seq, RenderTask(Static(0), "", Fixed, 0, 0, FALSE),
                        FALSE, FALSE, NoPoint, 0, 0, FALSE)
    /\ UNCHANGED <<alloc_log, panicked, debug_assertions>>
    /\ UNCHANGED <<batch_vars, tasks_vars>>

\* The tasks the frame builder may queue on a pass.
TextShadowKey == RenderTaskKey("CachePrimitive", 0, 9)
PassTasks ==
    { RenderTask(Static(0), "Alpha", Fixed, 0, 0, FALSE),
      RenderTask(Static(1), "Alpha", DynamicLocation(NoOrigin, Size(3, 1)), 0, 0, TRUE),
      RenderTask(Dynamic(TextShadowKey), "CachePrimitive",
                 DynamicLocation(NoOrigin, Size(3, 1)), 9, 0, FALSE),
      RenderTask(Dynamic(TextShadowKey), "CachePrimitive",
                 DynamicLocation(NoOrigin, Size(3, 2)), 9, 0, FALSE),
      RenderTask(Dynamic(RenderTaskKey("VerticalBlur", 2, 9)), "VerticalBlur",
                 DynamicLocation(NoOrigin, Size(3, 1)), 9, 2, FALSE),
      RenderTask(Dynamic(RenderTaskKey("HorizontalBlur", 2, 9)), "HorizontalBlur",
                 DynamicLocation(NoOrigin, Size(3, 1)), 9, 2, FALSE),
      RenderTask(Dynamic(RenderTaskKey("CacheMask", 0, 1)), "CacheMask",
                 DynamicLocation(NoOrigin, Size(3, 1)), 1, 0, FALSE),
      RenderTask(Static(2), "Readback", DynamicLocation(NoOrigin, Size(2, 2)), 0, 0, FALSE),
      RenderTask(Static(1), "Alpha", DynamicLocation(NoOrigin, Size(4, 1)), 0, 0, FALSE) }

InitPass ==
    /\ InitCommon
    /\ pass_index = 0
    /\ is_framebuffer \in BOOLEAN
    /\ color_targets = RenderTargetList_new(new_color_target, is_framebuffer)
    /\ debug_assertions \in BOOLEAN

NextBuild ==
    \/ \E task \in PassTasks : BuildTask(task)
    \/ NextPass

SpecPass == InitPass /\ [][NextBuild]_vars

(***************************************************************************)
(* Properties of RenderPass.build.                                         *)
(***************************************************************************)
\* The step just taken built a task with a Dynamic location.
BuiltDynamic == step'.op = "build" /\ step'.seq # step.seq
                /\ step'.task.location.type = "Dynamic"

\* Before the step, the key of the task was registered for the pass.
RegisteredBefore ==
    /\ step'.task.id.type = "Dynamic"
    /\ <<step'.task.id.key, pass_index>> \in DOMAIN dynamic_tasks

SameSizeBefore ==
    LET rect == dynamic_tasks[<<step'.task.id.key, pass_index>>].rect
    IN rect.w = step'.task.location.size.width /\ rect.h = step'.task.location.size.height

FitsTarget(size) == size.width <= TargetSize.width /\ size.height <= TargetSize.height

\* The allocations logged for a dynamic key in a pass.
AllocsFor(key, pass) ==
    { i \in 1..Len(alloc_log) :
        alloc_log[i].id = Dynamic(key) /\ alloc_log[i].pass = pass }

\* C4: dynamic-task dedup.  At most one allocation and one registry entry
\* exist per (dynamic key, pass), and building a task whose key is already
\* registered for the pass allocates nothing, appends no task-data record,
\* dispatches to no target and leaves the registry unchanged.
C4_DynamicTaskDedup ==
    /\ [](/\ \A kp \in DOMAIN dynamic_tasks :
                /\ Cardinality(AllocsFor(kp[1], kp[2])) = 1
                /\ \A i \in AllocsFor(kp[1], kp[2]) : alloc_log[i].rect = dynamic_tasks[kp].rect
                /\ dynamic_tasks[kp].index >= StaticTaskCount
                /\ \A kq \in DOMAIN dynamic_tasks :
                      dynamic_tasks[kq].index = dynamic_tasks[kp].index => kq = kp
          /\ \A i \in 1..Len(alloc_log) :
                alloc_log[i].id.type = "Dynamic"
                => Cardinality(AllocsFor(alloc_log[i].id.key, alloc_log[i].pass)) = 1
          /\ Len(render_task_data) = StaticTaskCount + Cardinality(DOMAIN dynamic_tasks))
    /\ [][ (BuiltDynamic /\ RegisteredBefore) =>
              /\ color_targets' = color_targets
              /\ alpha_targets' = alpha_targets
              /\ alloc_log' = alloc_log
              /\ render_task_data' = render_task_data
              /\ dynamic_tasks' = dynamic_tasks
              /\ ~step'.allocated
              /\ ~step'.dispatched ]_vars

\* C4 witness: a task was skipped as a duplicate of a registered one.
C4_Witness ==
    /\ step.op = "build"
    /\ step.skipped
    /\ ~panicked
    /\ Cardinality(AllocsFor(step.task.id.key, pass_index)) = 1
    /\ Cardinality(DOMAIN dynamic_tasks) >= 2

\* C5 as stated: a task with a Dynamic location (of a size that fits a
\* target) is skipped exactly when its (key, pass) is registered with the
\* same size; in every other case a slot is allocated and written into its
\* location.
C5_SkipOnlyOnSameSize ==
    [][ (BuiltDynamic /\ FitsTarget(step'.task.location.size)) =>
           /\ step'.skipped <=> (RegisteredBefore /\ SameSizeBefore)
           /\ ~(RegisteredBefore /\ SameSizeBefore) =>
                 /\ step'.allocated
                 /\ ~step'.task.location.origin.none ]_vars

\* C5 amended: such a task is skipped whenever its (key, pass) is
\* registered, whatever its size (a build with debug assertions aborts when
\* the sizes differ, and allocates nothing either); when the key is not
\* registered for the pass, or the id is Static, a slot of its kind's target
\* list is allocated and written into its location.
C5_SkipWheneverRegistered ==
    [][ (BuiltDynamic /\ FitsTarget(step'.task.location.size)) =>
           /\ RegisteredBefore =>
                 /\ ~step'.allocated
                 /\ alloc_log' = alloc_log
                 /\ color_targets' = color_targets /\ alpha_targets' = alpha_targets
                 /\ step'.task.location.origin.none
                 /\ step'.skipped <=> ~panicked'
                 /\ panicked' <=> (debug_assertions /\ ~SameSizeBefore)
           /\ ~RegisteredBefore =>
                 /\ ~step'.skipped
                 /\ step'.allocated
                 /\ Len(alloc_log') = Len(alloc_log) + 1
                 /\ LET e == alloc_log'[Len(alloc_log')]
                        kind == target_kind(step'.task)
                        origin == step'.task.location.origin
                        list == IF kind = "Color" THEN color_targets' ELSE alpha_targets'
                    IN /\ e.kind = kind
                       /\ ~origin.none
                       /\ e.rect = RectOf(origin, step'.task.location.size)
                       /\ origin.target = e.index
                       /\ e.index = Len(list) - 1
                       /\ \E k \in 1..Len(list[e.index + 1].allocs) :
                             list[e.index + 1].allocs[k] = e.rect
                       /\ kind = "Color" => alpha_targets' = alpha_targets
                       /\ kind = "Alpha" => color_targets' = color_targets ]_vars

\* C5 witness: a task whose key was registered with another size has been
\* skipped.
C5_Witness ==
    /\ step.op = "build"
    /\ step.skipped
    /\ ~panicked
    /\ step.task.id.type = "Dynamic"
    /\ <<step.task.id.key, pass_index>> \in DOMAIN dynamic_tasks
    /\ dynamic_tasks[<<step.task.id.key, pass_index>>].rect.h # step.task.location.size.height

(***************************************************************************)
(* Properties of the instance encoders.                                    *)
(***************************************************************************)
\* Every batch of both lists.
AllBatches == alpha_batches \o opaque_batches

\* C11: sentinel correctness.  Every instance emitted for a primitive that
\* has no clip task carries clip_task_index = i32::MAX (OPAQUE_TASK_INDEX
\* after the conversion to i32), and every Blend, HardwareComposite and
\* Composite row carries global_prim_id = -1 and layer_index = -1.
C11_SentinelCorrectness ==
    \A b \in 1..Len(AllBatches) :
        \A k \in 1..Len(AllBatches[b].instances) :
            LET inst == AllBatches[b].instances[k]
                item == ItemOfInstance(inst)
            IN /\ (item.type = "Primitive" /\ get_metadata(item.prim).clip_task = None)
                  => inst.clip_task_index = 2147483647
               /\ (\/ item.type \in {"Blend", "HardwareComposite", "Composite"}
                   \/ AllBatches[b].key.kind \in {"Blend", "HardwareComposite", "Composite"})
                  => (inst.global_prim_id = -1 /\ inst.layer_index = -1)

\* C11 witness: a Composite batch, a Blend or HardwareComposite batch and
\* primitive instances in both lists have been emitted.
C11_Witness ==
    /\ \E b \in 1..Len(alpha_batches) : alpha_batches[b].key.kind = "Composite"
    /\ \E b \in 1..Len(alpha_batches) :
          /\ alpha_batches[b].key.kind \in {"Blend", "HardwareComposite"}
          /\ Len(alpha_batches[b].instances) > 0
    /\ \E b \in 1..Len(alpha_batches) :
          \E k \in 1..Len(alpha_batches[b].instances) :
              ItemOfInstance(alpha_batches[b].instances[k]).type = "Primitive"
    /\ \E b \in 1..Len(opaque_batches) : Len(opaque_batches[b].instances) > 0

(***************************************************************************)
(* Properties of ColorRenderTarget.add_task.                               *)
(***************************************************************************)
\* The step just taken built a task of the given kind and dispatched it.
DispatchedKind(kind) ==
    /\ step'.op = "build" /\ step'.seq # step.seq
    /\ step'.task.kind = kind
    /\ step'.dispatched

\* The target the list's add_task hands a task to, after the step.
LastColorTarget == color_targets[Len(color_targets)]

\* C12: cross-pass blur resolution.  The BlurCommand emitted when pass p
\* builds VerticalBlur(r, P) has src_task_id = the index registered for
\* CachePrimitive(TextShadow(P)) in pass p-1; for HorizontalBlur(r, P) it is
\* the index registered for VerticalBlur(r, P) in pass p-1; task_id is the
\* index registered for the blur task itself in pass p.
C12_CrossPassBlurResolution ==
    [][ /\ DispatchedKind("VerticalBlur") =>
             LET blurs == LastColorTarget'.vertical_blurs
                 task == step'.task
                 src == RenderTaskKey("CachePrimitive", 0, task.prim)
             IN /\ Len(blurs) > 0
                /\ <<src, pass_index - 1>> \in DOMAIN dynamic_tasks
                /\ blurs[Len(blurs)].src_task_id = dynamic_tasks[<<src, pass_index - 1>>].index
                /\ blurs[Len(blurs)].task_id = dynamic_tasks'[<<task.id.key, pass_index>>].index
                /\ blurs[Len(blurs)].task_id = step'.task_index
        /\ DispatchedKind("HorizontalBlur") =>
             LET blurs == LastColorTarget'.horizontal_blurs
                 task == step'.task
                 src == RenderTaskKey("VerticalBlur", task.radius, task.prim)
             IN /\ Len(blurs) > 0
                /\ <<src, pass_index - 1>> \in DOMAIN dynamic_tasks
                /\ blurs[Len(blurs)].src_task_id = dynamic_tasks[<<src, pass_index - 1>>].index
                /\ blurs[Len(blurs)].task_id = dynamic_tasks'[<<task.id.key, pass_index>>].index
                /\ blurs[Len(blurs)].task_id = step'.task_index ]_vars

\* C12 witness: a horizontal blur has been dispatched in the third pass, on
\* the vertical blur of the second pass, itself on the text shadow cached in
\* the first; the three tasks have three distinct indices.
C12_Witness ==
    /\ step.op = "build"
    /\ step.task.kind = "HorizontalBlur"
    /\ step.dispatched
    /\ pass_index = 2
    /\ <<TextShadowKey, 0>> \in DOMAIN dynamic_tasks
    /\ <<RenderTaskKey("VerticalBlur", 2, 9), 1>> \in DOMAIN dynamic_tasks
    /\ Len(LastColorTarget.horizontal_blurs) = 1
    /\ LastColorTarget.horizontal_blurs[1].src_task_id
          = dynamic_tasks[<<RenderTaskKey("VerticalBlur", 2, 9), 1>>].index
    /\ LastColorTarget.horizontal_blurs[1].src_task_id
          # dynamic_tasks[<<TextShadowKey, 0>>].index
    /\ LastColorTarget.horizontal_blurs[1].task_id
          # LastColorTarget.horizontal_blurs[1].src_task_id

\* C13: a Composite alpha item always creates a new batch appended at the
\* end of the alpha batch list and no other item is ever merged into a
\* Composite batch: every batch of kind Composite holds exactly one
\* instance and one item, every batch of another kind an instance vector.
C13_CompositeStandalone ==
    /\ [](/\ \A b \in 1..Len(alpha_batches) :
                IF alpha_batches[b].key.kind = "Composite"
                THEN /\ alpha_batches[b].data = "Composite"
                     /\ Len(alpha_batches[b].instances) = 1
                     /\ Len(alpha_batches[b].items) = 1
                     /\ ItemOfInstance(alpha_batches[b].instances[1]).type = "Composite"
                ELSE /\ alpha_batches[b].data = "Instances"
                     /\ \A k \in 1..Len(alpha_batches[b].instances) :
                           ItemOfInstance(alpha_batches[b].instances[k]).type # "Composite"
          /\ \A b \in 1..Len(opaque_batches) :
                /\ opaque_batches[b].key.kind # "Composite"
                /\ opaque_batches[b].data = "Instances")
    /\ [][ (/\ Len(processed') = Len(processed) + 1
            /\ processed'[Len(processed')].list = "alpha"
            /\ processed'[Len(processed')].item.type = "Composite")
           => /\ Len(alpha_batches') = Len(alpha_batches) + 1
              /\ SubSeq(alpha_batches', 1, Len(alpha_batches)) = alpha_batches
              /\ alpha_batches'[Len(alpha_batches')].key.kind = "Composite"
              /\ alpha_batches'[Len(alpha_batches')].instances[1].z_sort_index
                    = Len(processed') ]_vars

\* C13 witness: a Composite batch lies between two batches of another kind,
\* and two consecutive Composite items have two batches.
C13_Witness ==
    \E b \in 2..(Len(alpha_batches) - 2) :
        /\ alpha_batches[b].key.kind = "Composite"
        /\ alpha_batches[b + 1].key.kind = "Composite"
        /\ alpha_batches[b - 1].key.kind # "Composite"
        /\ alpha_batches[b + 2].key.kind # "Composite"
        /\ Len(alpha_batches[b + 2].instances) > 0

(***************************************************************************)
(* Further properties of RenderTargetList.allocate.                        *)
(***************************************************************************)
\* The allocations of x, in order, are the first allocations of y.
AllocsPrefix(x, y) ==
    /\ Len(x.allocs) <= Len(y.allocs)
    /\ SubSeq(y.allocs, 1, Len(x.allocs)) = x.allocs

\* C14: allocate tries only the last target and, when that fails, appends
\* one new target.  Over any sequence of allocations the target count never
\* decreases and grows by at most one per call, the index of an existing
\* target never changes, and the returned index is that of the last target.
C14_AllocateAppendOnly ==
    [][ \A kind \in {"Color", "Alpha"} :
          LET old == TargetsOf(kind)
              new == TargetsOf(kind)'
          IN /\ Len(new) >= Len(old)
             /\ Len(new) <= Len(old) + 1
             /\ \A i \in 1..Len(old) :
                   /\ AllocsPrefix(old[i], new[i])
                   /\ i < Len(old) => new[i] = old[i]
                   /\ Len(new) = Len(old) + 1 => new[i] = old[i]
             /\ (step'.op = "allocate" /\ step'.allocated /\ step'.task.kind = kind
                 /\ step'.seq # step.seq)
                => /\ step'.target_index = Len(new) - 1
                   /\ Len(new) > 0
                   /\ Len(new[Len(new)].allocs) > 0
                   /\ new[Len(new)].allocs[Len(new[Len(new)].allocs)]
                         = RectOf(step'.origin, step'.task.size)
                   /\ alloc_log'[Len(alloc_log')].index = Len(new) - 1 ]_vars

\* C14 witness: an allocation of one pixel went to a new third target while
\* the first target, no longer the last, still had room for it.
C14_Witness ==
    /\ step.op = "allocate"
    /\ step.allocated
    /\ step.task.kind = "Color"
    /\ Len(color_targets) = 3
    /\ step.target_index = 2
    /\ color_targets[3].allocs = << RectOf(step.origin, Size(1, 1)) >>
    /\ color_targets[1].allocs = << Rect(0, 0, 1, 1) >>
    /\ color_targets[2].allocs = << Rect(0, 0, TargetSize.width, TargetSize.height) >>

\* The size does not fit in a fresh, empty target of the uniform size.
TooLarge(size) == size.width > TargetSize.width \/ size.height > TargetSize.height

\* C15: allocating a size that does not fit in a fresh, empty target is a
\* fatal abort; it returns no origin and leaves no new target in the list.
C15_OversizeAllocationAborts ==
    [][ (/\ step'.op = "allocate"
         /\ step'.seq # step.seq \/ panicked' # panicked
         /\ TooLarge(step'.task.size))
        => /\ panicked'
           /\ ~step'.allocated
           /\ step'.origin.none
           /\ color_targets' = color_targets
           /\ alpha_targets' = alpha_targets
           /\ alloc_log' = alloc_log ]_vars

\* C15 witness: the list held targets with allocations when an allocation
\* wider than a target aborted.
C15_Witness ==
    /\ panicked
    /\ step.op = "allocate"
    /\ TooLarge(step.task.size)
    /\ step.origin.none
    /\ Len(TargetsOf(step.task.kind)) = 2
    /\ Len(alloc_log) = 2
    /\ \A i \in 1..2 : alloc_log[i].kind = step.task.kind

(***************************************************************************)
(* Properties of RenderTaskCollection.                                     *)
(***************************************************************************)
\* The step just taken built a task and render_tasks.add returned for it.
AddReturned ==
    /\ step'.op = "build" /\ step'.seq # step.seq
    /\ ~step'.skipped
    /\ \/ step'.dispatched
       \/ dynamic_tasks' # dynamic_tasks
       \/ render_task_data' # render_task_data

\* The indices recorded for the dynamic tasks.
DynamicIndices == { dynamic_tasks[kp].index : kp \in DOMAIN dynamic_tasks }

\* C16: index layout.  Adding Static(idx) returns idx and leaves the length
\* of render_task_data and the dynamic map unchanged; the k-th dynamic task
\* added gets index static_count + k - 1, so the dynamic indices are all
\* >= static_count and pairwise distinct, and the length of render_task_data
\* is static_count plus the number of dynamic entries.
C16_IndexLayout ==
    /\ [](/\ Len(render_task_data) = StaticTaskCount + Cardinality(DOMAIN dynamic_tasks)
          /\ \A kp \in DOMAIN dynamic_tasks : dynamic_tasks[kp].index >= StaticTaskCount
          /\ Cardinality(DynamicIndices) = Cardinality(DOMAIN dynamic_tasks)
          /\ DynamicIndices = StaticTaskCount..(Len(render_task_data) - 1))
    /\ [][ AddReturned =>
             IF step'.task.id.type = "Static"
             THEN /\ step'.task_index = step'.task.id.index
                  /\ step'.task_index < StaticTaskCount
                  /\ Len(render_task_data') = Len(render_task_data)
                  /\ dynamic_tasks' = dynamic_tasks
                  /\ \A i \in 1..Len(render_task_data) :
                        i # step'.task.id.index + 1 => render_task_data'[i] = render_task_data[i]
             ELSE /\ step'.task_index = StaticTaskCount + Cardinality(DOMAIN dynamic_tasks)
                  /\ Len(render_task_data') = Len(render_task_data) + 1
                  /\ SubSeq(render_task_data', 1, Len(render_task_data)) = render_task_data
                  /\ DOMAIN dynamic_tasks'
                        = DOMAIN dynamic_tasks \cup {<<step'.task.id.key, pass_index>>}
                  /\ dynamic_tasks'[<<step'.task.id.key, pass_index>>].index
                        = step'.task_index ]_vars

\* C16 witness: a static task was added after two dynamic ones.
C16_Witness ==
    /\ step.op = "build"
    /\ step.dispatched
    /\ step.task.id.type = "Static"
    /\ step.task_index = step.task.id.index
    /\ DynamicIndices = {StaticTaskCount, StaticTaskCount + 1}
    /\ render_task_data[step.task_index + 1] # EmptyTaskData

\* The passes in which a dynamic key is registered.
PassesOf(key) == { kp[2] : kp \in { kq \in DOMAIN dynamic_tasks : kq[1] = key } }

\* The key a blur task looks up in the child pass.
BlurSource(task) ==
    IF task.kind = "VerticalBlur"
    THEN RenderTaskKey("CachePrimitive", 0, task.prim)
    ELSE RenderTaskKey("VerticalBlur", task.radius, task.prim)

\* C17: task index look-up.  Once add(task, pass) returned index i,
\* get_task_index(task.id, pass) returns i in every later state; the same
\* dynamic key added in two passes has two distinct indices, each returned
\* only for its own pass; looking up a dynamic key in a pass where it was
\* never added is a fatal abort, even when it was added in another pass.
C17_TaskIndexLookup ==
    /\ [](\A kp \in DOMAIN dynamic_tasks :
            /\ ~get_task_index_panics(RenderTasks, Dynamic(kp[1]), kp[2])
            /\ get_task_index(RenderTasks, Dynamic(kp[1]), kp[2]) = dynamic_tasks[kp].index
            /\ \A q \in PassesOf(kp[1]) :
                  q # kp[2] => get_task_index(RenderTasks, Dynamic(kp[1]), q)
                                  # get_task_index(RenderTasks, Dynamic(kp[1]), kp[2]))
    /\ [][ /\ AddReturned =>
                /\ ~get_task_index_panics(RenderTasks', step'.task.id, pass_index)
                /\ get_task_index(RenderTasks', step'.task.id, pass_index) = step'.task_index
           /\ \A kp \in DOMAIN dynamic_tasks :
                /\ kp \in DOMAIN dynamic_tasks'
                /\ get_task_index(RenderTasks', Dynamic(kp[1]), kp[2])
                      = get_task_index(RenderTasks, Dynamic(kp[1]), kp[2])
           /\ \A i \in 0..(StaticTaskCount - 1) :
                get_task_index(RenderTasks', Static(i), pass_index') = i
           /\ (/\ AddReturned
               /\ step'.task.kind \in {"VerticalBlur", "HorizontalBlur"}
               /\ <<BlurSource(step'.task), pass_index - 1>> \notin DOMAIN dynamic_tasks)
              => /\ panicked'
                 /\ ~step'.dispatched
                 /\ \A t \in 1..Len(color_targets') :
                       IF t <= Len(color_targets)
                       THEN /\ color_targets'[t].vertical_blurs = color_targets[t].vertical_blurs
                            /\ color_targets'[t].horizontal_blurs
                                  = color_targets[t].horizontal_blurs
                       ELSE /\ color_targets'[t].vertical_blurs = <<>>
                            /\ color_targets'[t].horizontal_blurs = <<>> ]_vars

\* C17 witness: a vertical blur built in the third pass aborted on the look-up
\* of its source in the second pass, where the key was never added, although
\* the key is registered in the first and in the third pass, with two indices.
C17_Witness ==
    /\ panicked
    /\ step.op = "build"
    /\ step.task.kind = "VerticalBlur"
    /\ pass_index = 2
    /\ PassesOf(TextShadowKey) = {0, 2}
    /\ dynamic_tasks[<<TextShadowKey, 0>>].index # dynamic_tasks[<<TextShadowKey, 2>>].index
    /\ <<step.task.id.key, 2>> \in DOMAIN dynamic_tasks

(***************************************************************************)
(* RenderTaskCollection::add called on its own, for any task and pass, on  *)
(* the collection of RenderTaskCollection::new(StaticTaskCount).           *)
(***************************************************************************)
MaxAdds == 3

\* A location already resolved to an origin in a target.
Allocated(x, y, target_index, size) ==
    DynamicLocation(SomeOrigin(SomePoint(x, y), target_index), size)

\* The tasks handed to add: static and dynamic ids, resolved, unresolved and
\* Fixed locations, two rects for one key, a static index out of range.
AddTasks ==
    { RenderTask(Static(0), "Alpha", Fixed, 0, 0, FALSE),
      RenderTask(Static(1), "Alpha", Allocated(0, 0, 0, Size(3, 1)), 0, 0, FALSE),
      RenderTask(Static(StaticTaskCount), "Alpha", Fixed, 0, 0, FALSE),
      RenderTask(Dynamic(TextShadowKey), "CachePrimitive",
                 Allocated(0, 0, 0, Size(3, 1)), 9, 0, FALSE),
      RenderTask(Dynamic(TextShadowKey), "CachePrimitive",
                 Allocated(0, 1, 1, Size(2, 1)), 9, 0, FALSE),
      RenderTask(Dynamic(RenderTaskKey("VerticalBlur", 2, 9)), "VerticalBlur",
                 Allocated(0, 0, 0, Size(3, 1)), 9, 2, FALSE),
      RenderTask(Dynamic(RenderTaskKey("CacheMask", 0, 1)), "CacheMask",
                 DynamicLocation(NoOrigin, Size(3, 1)), 1, 0, FALSE),
      RenderTask(Dynamic(RenderTaskKey("CacheMask", 0, 1)), "CacheMask", Fixed, 1, 0, FALSE) }

\* One call render_tasks.add(&task, pass).
AddTask(task, pass) ==
    /\ ~panicked
    /\ step.seq < MaxAdds
    /\ LET added == add(RenderTasks, task, pass)
       IN /\ panicked' = added.panic
          /\ render_task_data' = added.self.render_task_data
          /\ dynamic_tasks' = added.self.dynamic_tasks
          /\ pass_index' = pass
          /\ step' = PassStep("add", step.seq + 1, task, FALSE, FALSE, task.location.origin,
                              0, added.index, FALSE)
    /\ UNCHANGED <<is_framebuffer, color_targets, alpha_targets, alloc_log, debug_assertions>>
    /\ UNCHANGED batch_vars

InitTasks ==
    /\ InitCommon
    /\ pass_index = 0
    /\ is_framebuffer = FALSE
    /\ color_targets = <<>>
    /\ debug_assertions \in BOOLEAN

NextTasks == \E task \in AddTasks, pass \in 0..(MaxPasses - 1) : AddTask(task, pass)

SpecTasks == InitTasks /\ [][NextTasks]_vars

\* The step just taken called add for a dynamic key that was registered
\* for the pass.
AddedRegisteredKey ==
    /\ step'.op = "add" /\ step'.seq # step.seq
    /\ step'.task.id.type = "Dynamic"
    /\ <<step'.task.id.key, pass_index'>> \in DOMAIN dynamic_tasks

\* C18 as stated: add for a dynamic key already registered for the same pass
\* is a fatal abort; the entry is not overwritten and no second task-data
\* record is appended.
C18_DuplicateAddAborts ==
    [][ AddedRegisteredKey =>
           /\ panicked'
           /\ dynamic_tasks' = dynamic_tasks
           /\ render_task_data' = render_task_data ]_vars

\* C18 amended: in a build with debug assertions such an add aborts, with
\* the entry and the records untouched; in a build without them it returns:
\* unless it aborts on a Fixed or unresolved location, it appends a second
\* record and overwrites the entry with the new index and the task's rect.
C18_DuplicateAddAbortsInDebugBuild ==
    [][ AddedRegisteredKey =>
           LET kp == <<step'.task.id.key, pass_index'>>
               task == step'.task
               unresolved == task.location.type = "Fixed" \/ task.location.origin.none
           IN IF debug_assertions \/ unresolved
              THEN /\ panicked'
                   /\ dynamic_tasks' = dynamic_tasks
                   /\ render_task_data' = render_task_data
              ELSE /\ ~panicked'
                   /\ Len(render_task_data') = Len(render_task_data) + 1
                   /\ DOMAIN dynamic_tasks' = DOMAIN dynamic_tasks
                   /\ dynamic_tasks'[kp].index = Len(render_task_data)
                   /\ dynamic_tasks'[kp].index # dynamic_tasks[kp].index
                   /\ dynamic_tasks'[kp].rect = RectOf(task.location.origin, task.location.size)
                   /\ step'.task_index = Len(render_task_data)
                   /\ \A kq \in DOMAIN dynamic_tasks :
                         kq # kp => dynamic_tasks'[kq] = dynamic_tasks[kq] ]_vars

\* C18 witness: without debug assertions a key was added twice for one pass
\* with two rects; the entry holds the second rect and the second index.
C18_Witness ==
    /\ ~debug_assertions
    /\ ~panicked
    /\ step.op = "add"
    /\ step.task.id = Dynamic(TextShadowKey)
    /\ Len(render_task_data) = StaticTaskCount + 2
    /\ DOMAIN dynamic_tasks = {<<TextShadowKey, pass_index>>}
    /\ dynamic_tasks[<<TextShadowKey, pass_index>>].index = StaticTaskCount + 1
    /\ dynamic_tasks[<<TextShadowKey, pass_index>>].rect = Rect(0, 1, 2, 1)

(***************************************************************************)
(* The add_task of the two target kinds called on its own, on the one      *)
(* target of each list of pass 0, for tasks of every kind; add registers   *)
(* a task in the collection beforehand, or not.                            *)
(***************************************************************************)
\* One task of each kind, its location resolved.
DispatchTasks ==
    { RenderTask(Static(1), "Alpha", Allocated(0, 0, 0, Size(3, 1)), 0, 0, TRUE),
      RenderTask(Dynamic(RenderTaskKey("VerticalBlur", 2, 9)), "VerticalBlur",
                 Allocated(0, 0, 0, Size(3, 1)), 9, 2, FALSE),
      RenderTask(Dynamic(RenderTaskKey("HorizontalBlur", 2, 9)), "HorizontalBlur",
                 Allocated(0, 0, 0, Size(3, 1)), 9, 2, FALSE),
      RenderTask(Dynamic(TextShadowKey), "CachePrimitive",
                 Allocated(0, 0, 0, Size(3, 1)), 9, 0, FALSE),
      RenderTask(Dynamic(RenderTaskKey("CacheMask", 0, 1)), "CacheMask",
                 Allocated(0, 0, 0, Size(3, 1)), 1, 0, FALSE),
      RenderTask(Static(2), "Readback", Allocated(0, 0, 0, Size(2, 2)), 0, 0, FALSE) }

\* target.add_task(task, ctx, render_tasks, pass_index) on the last target
\* of the color or of the alpha list.
DispatchTo(kind, task) ==
    /\ ~panicked
    /\ step.seq < MaxAdds
    /\ LET targets == IF kind = "Color" THEN color_targets ELSE alpha_targets
           target == targets[Len(targets)]
           r == IF kind = "Color"
                THEN ColorRenderTarget_add_task(target, task, RenderTasks, pass_index)
                ELSE AlphaRenderTarget_add_task(target, task, RenderTasks, pass_index)
           targets1 == [targets EXCEPT ![Len(targets)] = r.target]
       IN /\ panicked' = r.panic
          /\ color_targets' = IF kind = "Color" THEN targets1 ELSE color_targets
          /\ alpha_targets' = IF kind = "Alpha" THEN targets1 ELSE alpha_targets
          /\ step' = PassStep(IF kind = "Color" THEN "color_add_task" ELSE "alpha_add_task",
                              step.seq + 1, task, FALSE, FALSE, task.location.origin,
                              Len(targets) - 1, 0, ~r.panic)
    /\ UNCHANGED <<pass_index, is_framebuffer, alloc_log, debug_assertions>>
    /\ UNCHANGED <<batch_vars, tasks_vars>>

\* Pass 0 with one empty target in each list.
InitDispatch ==
    /\ alpha_batches = <<>>
    /\ opaque_batches = <<>>
    /\ cur_task = 0
    /\ phase = "idle"
    /\ existing_opaque_batch_index = 0
    /\ processed = <<>>
    /\ last = Step("none", PrimitiveItem(0, 0), 0, 0, FALSE, 0)
    /\ render_task_data = [i \in 1..StaticTaskCount |-> EmptyTaskData]
    /\ dynamic_tasks = EmptyMap
    /\ pass_index = 0
    /\ is_framebuffer = TRUE
    /\ color_targets = << new_color_target >>
    /\ alpha_targets = << new_alpha_target >>
    /\ panicked = FALSE
    /\ debug_assertions \in BOOLEAN
    /\ step = NoStep
    /\ alloc_log = <<>>

NextDispatch ==
    \/ \E task \in DispatchTasks : AddTask(task, 0)
    \/ \E task \in DispatchTasks : DispatchTo("Color", task)
    \/ \E task \in DispatchTasks : DispatchTo("Alpha", task)

SpecDispatch == InitDispatch /\ [][NextDispatch]_vars

\* C19: target-kind dispatch.  A ColorRenderTarget given a CacheMask task
\* aborts, and an AlphaRenderTarget given a task of any other kind aborts;
\* in neither case is anything appended to the target's batchers or lists.
C19_TargetKindDispatch ==
    [][ /\ (/\ step'.op = "color_add_task" /\ step'.seq # step.seq
            /\ step'.task.kind = "CacheMask")
           => /\ panicked'
              /\ color_targets' = color_targets
              /\ alpha_targets' = alpha_targets
        /\ (/\ step'.op = "alpha_add_task" /\ step'.seq # step.seq
            /\ step'.task.kind \in {"Alpha", "VerticalBlur", "HorizontalBlur",
                                    "CachePrimitive", "Readback"})
           => /\ panicked'
              /\ color_targets' = color_targets
              /\ alpha_targets' = alpha_targets ]_vars

\* C19 witness: an alpha target that had taken a registered mask task, and
\* holds its clip instances, aborted on a Readback task.
C19_Witness ==
    /\ panicked
    /\ step.op = "alpha_add_task"
    /\ step.task.kind = "Readback"
    /\ Len(alpha_targets[1].rectangles) > 0
    /\ Len(alpha_targets[1].readbacks) = 0

(***************************************************************************)
(* The key of a Primitive item as a function of its inputs: every          *)
(* primitive kind, blur radius, render mode, opacity and clip presence,    *)
(* under both transform kinds.  last holds the input and, once the key is  *)
(* made, the key.                                                          *)
(***************************************************************************)
PrimitiveKinds ==
    { "Rectangle", "TextRun", "Image", "YuvImage", "Border", "BoxShadow",
      "AlignedGradient", "AngleGradient", "RadialGradient" }

FontRenderModes == { "Mono", "Alpha", "Subpixel" }

\* The color of the text runs of the inputs.
TextColor == 7

KeyMetadata ==
    { [Prim(kind, opaque, clip, <<"T1", Invalid, Invalid>>, RA, 1)
          EXCEPT !.blur_radius = blur, !.render_mode = mode, !.color = TextColor] :
        kind \in PrimitiveKinds, opaque \in BOOLEAN,
        clip \in { None, Dynamic(RenderTaskKey("CacheMask", 0, 1)) },
        blur \in { 0, 2 }, mode \in FontRenderModes }

InitKey ==
    /\ alpha_batches = <<>>
    /\ opaque_batches = <<>>
    /\ cur_task = 0
    /\ phase = "idle"
    /\ existing_opaque_batch_index = 0
    /\ processed = <<>>
    /\ \E group \in { clip_scroll_group_store[g] : g \in DOMAIN clip_scroll_group_store } :
          \E metadata \in KeyMetadata :
              last = [op |-> "input", group |-> group, metadata |-> metadata,
                      key |-> CompositeKey]
    /\ render_task_data = [i \in 1..StaticTaskCount |-> EmptyTaskData]
    /\ dynamic_tasks = EmptyMap
    /\ pass_index = 1
    /\ is_framebuffer = FALSE
    /\ color_targets = <<>>
    /\ alpha_targets = <<>>
    /\ panicked = FALSE
    /\ debug_assertions = TRUE
    /\ step = NoStep
    /\ alloc_log = <<>>

\* The key is made for the input.
MakeKey ==
    /\ last.op = "input"
    /\ last' = [last EXCEPT !.op = "key",
                            !.key = PrimitiveKeyOf(last.group, last.metadata)]
    /\ UNCHANGED <<alpha_batches, opaque_batches, cur_task, phase,
                   existing_opaque_batch_index, processed>>
    /\ UNCHANGED <<tasks_vars, pass_vars, panicked, debug_assertions>>

SpecKey == InitKey /\ [][MakeKey]_vars

\* needs_blending as the design states it.
NeedsBlending(group, metadata) ==
    group.kind = "Complex" \/ ~metadata.is_opaque \/ metadata.clip_task # None

\* C20: blend-mode derivation.  With needs_blending = complex transform OR
\* not opaque OR has clip task, the key's blend mode is: TextRun with blur 0,
\* Subpixel(color) when the render mode is Subpixel and Alpha otherwise;
\* TextRun with blur > 0, Alpha; Image and the three gradient kinds,
\* PremultipliedAlpha when needs_blending and None otherwise; every other
\* kind, Alpha when needs_blending and None otherwise.
C20_BlendModeDerivation ==
    last.op = "key" =>
        LET m == last.metadata
            nb == NeedsBlending(last.group, m)
            mode == last.key.blend_mode
        IN /\ (m.prim_kind = "TextRun" /\ m.blur_radius = 0 /\ m.render_mode = "Subpixel")
                 => mode = <<"Subpixel", m.color>>
           /\ (m.prim_kind = "TextRun" /\ m.blur_radius = 0 /\ m.render_mode # "Subpixel")
                 => mode = <<"Alpha">>
           /\ (m.prim_kind = "TextRun" /\ m.blur_radius > 0) => mode = <<"Alpha">>
           /\ (m.prim_kind \in {"Image", "AlignedGradient", "AngleGradient", "RadialGradient"})
                 => mode = (IF nb THEN <<"PremultipliedAlpha">> ELSE <<"None">>)
           /\ (m.prim_kind \in {"Rectangle", "YuvImage", "Border", "BoxShadow"})
                 => mode = (IF nb THEN <<"Alpha">> ELSE <<"None">>)

\* C20 witness: an opaque image without a clip task under a complex
\* transform got PremultipliedAlpha.
C20_Witness ==
    /\ last.op = "key"
    /\ last.metadata.prim_kind = "Image"
    /\ last.metadata.is_opaque
    /\ last.metadata.clip_task = None
    /\ last.group.kind = "Complex"
    /\ last.key.blend_mode = <<"PremultipliedAlpha">>

(***************************************************************************)
(* ClipBatcher::add called on its own on the clip batcher of one alpha     *)
(* target.  step holds the arguments of the call and the batcher before    *)
(* it.                                                                     *)
(***************************************************************************)
MaxClipAdds == 2

\* A mask image of a clip: Some((mask, address)) with the texture the
\* resource cache holds for it.
SomeImage(texture, address) == [none |-> FALSE, texture |-> texture, address |-> address]

\* The (PackedLayerIndex, MaskCacheInfo) pairs of the calls: with two clips,
\* with one clip and a mask image, with no clip at all.
ClipInfos ==
    { Clip(1, 10, 2, NoImage), Clip(2, 40, 1, SomeImage("T1", 7)), Clip(1, 0, 0, NoImage) }

ClipLists ==
    { <<>> } \cup { << c >> : c \in ClipInfos } \cup { << c, d >> : c, d \in ClipInfos }

MaskGeometryKinds == { "Default", "CornersOnly" }

ClipAdd(task_index, clips, geometry_kind) ==
    /\ step.seq < MaxClipAdds
    /\ alpha_targets' = << ClipBatcher_add(alpha_targets[1], task_index, clips, geometry_kind) >>
    /\ step' = [op |-> "clip_add", seq |-> step.seq + 1, task_index |-> task_index,
                clips |-> clips, geometry_kind |-> geometry_kind,
                before |-> alpha_targets[1].rectangles]
    /\ UNCHANGED <<pass_index, is_framebuffer, color_targets, alloc_log>>
    /\ UNCHANGED <<batch_vars, tasks_vars, panicked, debug_assertions>>

\* AlphaRenderTarget::new: ClipBatcher::new, in the one target of the alpha
\* list of pass 0.
InitClip ==
    /\ alpha_batches = <<>>
    /\ opaque_batches = <<>>
    /\ cur_task = 0
    /\ phase = "idle"
    /\ existing_opaque_batch_index = 0
    /\ processed = <<>>
    /\ last = Step("none", PrimitiveItem(0, 0), 0, 0, FALSE, 0)
    /\ render_task_data = [i \in 1..StaticTaskCount |-> EmptyTaskData]
    /\ dynamic_tasks = EmptyMap
    /\ pass_index = 0
    /\ is_framebuffer = FALSE
    /\ color_targets = <<>>
    /\ alpha_targets = << new_alpha_target >>
    /\ panicked = FALSE
    /\ debug_assertions = TRUE
    /\ step = NoStep
    /\ alloc_log = <<>>

NextClip ==
    \E task_index \in 0..1, clips \in ClipLists, geometry_kind \in MaskGeometryKinds :
        ClipAdd(task_index, clips, geometry_kind)

SpecClip == InitClip /\ [][NextClip]_vars

\* The number of instances one clip index gives.
InstancesPerClip(geometry_kind) == IF geometry_kind = "Default" THEN 1 ELSE 4

\* The segments of one clip index, in order.
SegmentsOf(geometry_kind) ==
    IF geometry_kind = "Default"
    THEN << "All" >>
    ELSE << "TopLeftCorner", "TopRightCorner", "BottomLeftCorner", "BottomRightCorner" >>

\* The number of instances the first n clips of a list give.
RECURSIVE InstancesBefore(_, _, _)
InstancesBefore(clips, n, geometry_kind) ==
    IF n = 0 THEN 0
    ELSE InstancesBefore(clips, n - 1, geometry_kind)
         + clips[n].effective_clip_count * InstancesPerClip(geometry_kind)

\* C21: ClipBatcher.add appends to rectangles, for each clip in clip order
\* and each clip index i in [0, effective_clip_count), one instance with
\* segment All for Default geometry, or four instances with the four corner
\* segments in order for CornersOnly, each with address clip_range.start +
\* i * CLIP_DATA_GPU_SIZE and the given task and layer index; the instances
\* already in rectangles are unchanged.
C21_ClipBatcherAdd ==
    step.op = "clip_add" =>
        LET rectangles == alpha_targets[1].rectangles
            clips == step.clips
            per == InstancesPerClip(step.geometry_kind)
            base == Len(step.before)
        IN /\ Len(rectangles) = base + InstancesBefore(clips, Len(clips), step.geometry_kind)
           /\ \A k \in 1..base : rectangles[k] = step.before[k]
           /\ \A c \in 1..Len(clips) :
                 \A i \in 0..(clips[c].effective_clip_count - 1) :
                    \A s \in 1..per :
                       rectangles[base + InstancesBefore(clips, c - 1, step.geometry_kind)
                                  + i * per + s]
                       = [task_id |-> step.task_index,
                          layer_index |-> clips[c].layer,
                          address |-> clips[c].clip_range_start + i * CLIP_DATA_GPU_SIZE,
                          segment |-> SegmentsOf(step.geometry_kind)[s]]

\* C21 witness: a second call, with corners only, added the eight instances
\* of a clip with two entries and the four of a clip with one after the
\* instances of the first call.
C21_Witness ==
    /\ step.op = "clip_add"
    /\ step.seq = 2
    /\ Len(step.before) > 0
    /\ step.geometry_kind = "CornersOnly"
    /\ step.clips = << Clip(1, 10, 2, NoImage), Clip(2, 40, 1, SomeImage("T1", 7)) >>
    /\ Len(alpha_targets[1].rectangles) = Len(step.before) + 12
    /\ alpha_targets[1].rectangles[Len(step.before) + 6].address = 10 + CLIP_DATA_GPU_SIZE
    /\ alpha_targets[1].rectangles[Len(step.before) + 6].segment = "TopRightCorner"

(***************************************************************************)
(* Properties of TextureAllocator.allocate.                                *)
(***************************************************************************)
\* The bounding box of the rectangles of a sequence; the zero rect when it
\* is empty.
BoundingUnion(rects) ==
    IF rects = <<>> THEN Rect(0, 0, 0, 0)
    ELSE LET K == 1..Len(rects)
             x0 == CHOOSE v \in { rects[k].x : k \in K } : \A k \in K : v <= rects[k].x
             y0 == CHOOSE v \in { rects[k].y : k \in K } : \A k \in K : v <= rects[k].y
             x1 == CHOOSE v \in { rects[k].x + rects[k].w : k \in K } :
                      \A k \in K : v >= rects[k].x + rects[k].w
             y1 == CHOOSE v \in { rects[k].y + rects[k].h : k \in K } :
                      \A k \in K : v >= rects[k].y + rects[k].h
         IN Rect(x0, y0, x1 - x0, y1 - y0)

\* The outer rect contains the inner one; an empty rect is contained in
\* every rect.
ContainsRect(outer, inner) ==
    \/ inner.w = 0 \/ inner.h = 0
    \/ /\ outer.x <= inner.x /\ inner.x + inner.w <= outer.x + outer.w
       /\ outer.y <= inner.y /\ inner.y + inner.h <= outer.y + outer.h

\* C22: after any sequence of allocate calls on one target, used_rect
\* contains every rectangle allocated in that target and equals their
\* bounding union; an allocate that fails on a target returns absent and
\* leaves its used_rect unchanged, and used_rect never shrinks.
C22_UsedRect ==
    /\ [](\A kind \in {"Color", "Alpha"} :
            \A t \in 1..Len(TargetsOf(kind)) :
               LET target == TargetsOf(kind)[t]
               IN /\ target.used_rect = BoundingUnion(target.allocs)
                  /\ \A k \in 1..Len(target.allocs) :
                        ContainsRect(target.used_rect, target.allocs[k]))
    /\ [][ \A kind \in {"Color", "Alpha"} :
             LET old == TargetsOf(kind)
                 new == TargetsOf(kind)'
             IN /\ \A t \in 1..Len(old) :
                      /\ ContainsRect(new[t].used_rect, old[t].used_rect)
                      /\ new[t].allocs = old[t].allocs => new[t].used_rect = old[t].used_rect
                /\ (/\ step'.op = "allocate" /\ step'.seq # step.seq
                    /\ step'.task.kind = kind
                    /\ Len(old) > 0
                    /\ Len(new) = Len(old) + 1 \/ ~step'.allocated)
                   => new[Len(old)].used_rect = old[Len(old)].used_rect ]_vars

\* C22 witness: the first color target took two allocations, its used_rect
\* is larger than either, and a third allocation failed on it and went to a
\* second target.
C22_Witness ==
    /\ step.op = "allocate"
    /\ step.task.kind = "Color"
    /\ step.allocated
    /\ Len(color_targets) = 2
    /\ Len(color_targets[1].allocs) = 2
    /\ color_targets[1].used_rect # color_targets[1].allocs[1]
    /\ color_targets[1].used_rect # color_targets[1].allocs[2]
    /\ Len(color_targets[2].allocs) = 1
    /\ Len(alloc_log) = 3

(***************************************************************************)
(* Further properties of AlphaBatcher.build.                               *)
(***************************************************************************)
\* The step just taken processed an alpha item that went through the merge
\* scan (a Composite item is given no key and never reaches the scan).
ScannedAlphaItem ==
    processed' # processed /\ last'.op = "alpha" /\ last'.item.type # "Composite"

\* The batches among the 10 most recent whose key is compatible with the key.
CompatibleInWindow(batches, key) ==
    { i \in 1..Len(batches) : i > Len(batches) - 10 /\ KeysCompatible(batches[i].key, key) }

\* Some item of a batch after batch i intersects the rect.
IntersectedAfter(batches, i, rect) ==
    \E j \in (i + 1)..Len(batches) :
        \E k \in 1..Len(batches[j].items) : intersects(BatchItemRect(batches[j].items[k]), rect)

\* C23: coalescence of disjoint alpha items.  An alpha item whose key is
\* compatible with a batch among the 10 most recent is merged into the most
\* recent such batch, provided no item of any batch after it intersects the
\* item's bounding rect; a new batch is appended only when the scan meets an
\* intersecting item in an incompatible batch first or finds no compatible
\* batch in the window.
C23_DisjointCoalescence ==
    [][ ScannedAlphaItem =>
          LET n == Len(alpha_batches)
              item == last'.item
              key == ItemKey(item)
              rect == ItemRect(item)
              compatible == CompatibleInWindow(alpha_batches, key)
              m == CHOOSE i \in compatible : \A j \in compatible : j <= i
          IN /\ (compatible # {} /\ ~IntersectedAfter(alpha_batches, m, rect))
                => /\ Len(alpha_batches') = n
                   /\ ~last'.created
                   /\ last'.batch = m
                   /\ alpha_batches'[m].items = Append(alpha_batches[m].items, BatchItemOf(item))
                   /\ alpha_batches'[m].key = alpha_batches[m].key
                   /\ \A i \in 1..n : i # m => alpha_batches'[i] = alpha_batches[i]
             /\ Len(alpha_batches') # n
                => /\ Len(alpha_batches') = n + 1
                   /\ \/ compatible = {}
                      \/ /\ IntersectedAfter(alpha_batches, m, rect)
                         /\ \A j \in (m + 1)..n : ~KeysCompatible(alpha_batches[j].key, key) ]_vars

\* C23 witness: an item was merged into a batch two places from the end,
\* past two later batches none of whose items intersects it.
C23_Witness ==
    /\ last.op = "alpha"
    /\ ~last.created
    /\ last.item.type = "Primitive"
    /\ Len(alpha_batches) >= 3
    /\ last.batch = Len(alpha_batches) - 2
    /\ \A j \in (last.batch + 1)..Len(alpha_batches) :
          \A k \in 1..Len(alpha_batches[j].items) :
             ~intersects(BatchItemRect(alpha_batches[j].items[k]), ItemRect(last.item))

\* The step just taken processed an opaque item.
PlacedOpaqueItem == processed' # processed /\ last'.op = "opaque"

\* The batches at or after the cursor (0-based) whose key is compatible with
\* the key, by their 1-based position.
CompatibleFromCursor(batches, cursor, key) ==
    { i \in (cursor + 1)..Len(batches) : KeysCompatible(batches[i].key, key) }

\* C24: opaque placement rule.  Each opaque item is placed in the
\* lowest-index batch at or after the cursor whose key is compatible with
\* the item's key, or in a new batch appended at the end when there is
\* none, whatever the rects of the items are; it is never placed in a batch
\* before the cursor, even when that batch is compatible.
C24_OpaquePlacement ==
    [][ PlacedOpaqueItem =>
          LET n == Len(opaque_batches)
              item == last'.item
              key == PrimitiveKey(item)
              candidates == CompatibleFromCursor(opaque_batches, existing_opaque_batch_index, key)
              lowest == CHOOSE i \in candidates : \A j \in candidates : i <= j
              b == last'.batch
          IN /\ b > existing_opaque_batch_index
             /\ IF candidates # {}
                THEN /\ b = lowest
                     /\ Len(opaque_batches') = n
                     /\ opaque_batches'[b].key = opaque_batches[b].key
                     /\ opaque_batches'[b].items = Append(opaque_batches[b].items, BatchItemOf(item))
                ELSE /\ b = n + 1
                     /\ Len(opaque_batches') = n + 1
                     /\ opaque_batches'[b].key = key
                     /\ opaque_batches'[b].items = << BatchItemOf(item) >>
             /\ \A i \in 1..n : i # b => opaque_batches'[i] = opaque_batches[i] ]_vars

\* C24 witness: in the first task an opaque item got a new batch at the end
\* although a batch before the cursor is compatible with its key, and its
\* rect intersects that of an item of a batch it was not placed in.
C24_Witness ==
    /\ cur_task = 1
    /\ last.op = "opaque"
    /\ last.created
    /\ last.batch = Len(opaque_batches)
    /\ \E b \in 1..last.cursor_before :
          /\ KeysCompatible(opaque_batches[b].key, PrimitiveKey(last.item))
          /\ KeysCompatible(opaque_batches[b].key, opaque_batches[last.batch].key)
    /\ \E b \in 1..(last.batch - 1) :
          \E k \in 1..Len(opaque_batches[b].items) :
             intersects(BatchItemRect(opaque_batches[b].items[k]), ItemRect(last.item))

(***************************************************************************)
(* The opaque loop over the opaque_items list of each task.  The list of   *)
(* the task being built is given when the task starts; step holds it, in   *)
(* input order, with the number of items the loop has not reached yet.     *)
(* The z of an item is its 1-based position in the list.                   *)
(***************************************************************************)
MaxOpaqueItems == 3

\* The opaque_items lists a task may hold.
RECURSIVE OpaqueLists(_)
OpaqueLists(len) ==
    IF len = 0 THEN { <<>> }
    ELSE OpaqueLists(len - 1)
         \cup { Append(l, shape) : l \in { m \in OpaqueLists(len - 1) : Len(m) = len - 1 },
                                   shape \in OpaqueShapes }

\* `for task in &mut self.tasks`, once the loops of the task before are over.
StartTaskWith(items) ==
    /\ ~panicked
    /\ cur_task < MaxTasks
    /\ step.remaining = 0
    /\ cur_task' = cur_task + 1
    /\ existing_opaque_batch_index' = 0
    /\ phase' = "alpha"
    /\ last' = Step("task", PrimitiveItem(0, 0), 0, 0, FALSE, existing_opaque_batch_index)
    /\ step' = [op |-> "opaque_items", seq |-> cur_task + 1,
                items |-> [i \in 1..Len(items) |-> [items[i] EXCEPT !.z = i]],
                remaining |-> Len(items)]
    /\ UNCHANGED <<alpha_batches, opaque_batches, processed>>
    /\ UNCHANGED <<pass_index, is_framebuffer, color_targets, alpha_targets, alloc_log>>
    /\ UNCHANGED <<tasks_vars, panicked, debug_assertions>>

\* One iteration of `for item in task.opaque_items.iter().rev()` over the
\* list of the task.
OpaqueLoopStep ==
    /\ ~panicked
    /\ phase \in {"alpha", "opaque"}
    /\ step.remaining > 0
    /\ PlaceOpaqueItem(step.items[rev_next(step.items, step.remaining)])
    /\ step' = [step EXCEPT !.remaining = @ - 1]
    /\ UNCHANGED <<alpha_batches, cur_task>>
    /\ UNCHANGED <<pass_index, is_framebuffer, color_targets, alpha_targets, alloc_log>>
    /\ UNCHANGED <<tasks_vars, debug_assertions>>

InitOrder ==
    /\ alpha_batches = <<>>
    /\ opaque_batches = <<>>
    /\ cur_task = 0
    /\ phase = "idle"
    /\ existing_opaque_batch_index = 0
    /\ processed = <<>>
    /\ last = Step("none", PrimitiveItem(0, 0), 0, 0, FALSE, 0)
    /\ render_task_data = [i \in 1..StaticTaskCount |-> EmptyTaskData]
    /\ dynamic_tasks = EmptyMap
    /\ pass_index = 1
    /\ is_framebuffer = FALSE
    /\ color_targets = <<>>
    /\ alpha_targets = <<>>
    /\ panicked = FALSE
    /\ debug_assertions = TRUE
    /\ step = [op |-> "none", seq |-> 0, items |-> <<>>, remaining |-> 0]
    /\ alloc_log = <<>>

NextOrder ==
    \/ \E items \in OpaqueLists(MaxOpaqueItems) : StartTaskWith(items)
    \/ OpaqueLoopStep

SpecOrder == InitOrder /\ [][NextOrder]_vars

\* C25: opaque items of a task are traversed in reverse input order.
\* Inside any opaque batch the instances of one task's items appear in the
\* reverse of the order in which the items were listed, and the opaque
\* batches a task creates are created in the order of first use during
\* that reverse traversal.
C25_OpaqueReverseOrder ==
    /\ \A b \in 1..Len(opaque_batches) :
          \A k1, k2 \in 1..Len(opaque_batches[b].instances) :
             (/\ k1 < k2
              /\ opaque_batches[b].instances[k1].task_index
                    = opaque_batches[b].instances[k2].task_index)
             => opaque_batches[b].instances[k1].z_sort_index
                   > opaque_batches[b].instances[k2].z_sort_index
    /\ \A b1, b2 \in 1..Len(opaque_batches) :
          (/\ b1 < b2
           /\ opaque_batches[b1].instances[1].task_index
                 = opaque_batches[b2].instances[1].task_index)
          => opaque_batches[b1].instances[1].z_sort_index
                > opaque_batches[b2].instances[1].z_sort_index
    /\ ~panicked /\ step.op = "opaque_items" =>
          \* the items reached so far are the last ones of the list
          { <<inst.task_index, inst.z_sort_index>> :
              inst \in UNION { { opaque_batches[b].instances[k] :
                                   k \in 1..Len(opaque_batches[b].instances) } :
                               b \in 1..Len(opaque_batches) } }
          \cap { <<cur_task - 1, z>> : z \in 1..Len(step.items) }
          = { <<cur_task - 1, z>> : z \in (step.remaining + 1)..Len(step.items) }

\* C25 witness: the second task listed three items; the batch made by the
\* first task holds, after its own item, the third and then the second item
\* of the second task, and the first item made a later batch.
C25_Witness ==
    /\ cur_task = 2
    /\ step.remaining = 0
    /\ Len(step.items) = 3
    /\ Len(opaque_batches) = 2
    /\ Len(opaque_batches[1].instances) = 3
    /\ opaque_batches[1].instances[1].task_index = 0
    /\ opaque_batches[1].instances[2].task_index = 1
    /\ opaque_batches[1].instances[2].z_sort_index = 3
    /\ opaque_batches[1].instances[3].z_sort_index = 2
    /\ opaque_batches[2].instances[1].z_sort_index = 1

\* The keys derived for the items whose instances a batch holds.
ItemKeysOf(batch) ==
    { ItemKey(ItemOfInstance(batch.instances[k])) : k \in 1..Len(batch.instances) }

\* C26: any two items placed in the same batch have keys that are
\* compatible with each other, not only with the batch key: a batch whose
\* key has the Invalid sentinel in a texture slot never holds two items with
\* different valid textures in that slot.  The batch key is the key of the
\* first item.
C26_ItemsPairwiseCompatible ==
    \A b \in 1..Len(alpha_batches) :
        LET batch == alpha_batches[b] IN
        /\ batch.key = ItemKey(ItemOfInstance(batch.instances[1]))
        /\ \A key1, key2 \in ItemKeysOf(batch) : KeysCompatible(key1, key2)
        /\ \A t \in 1..3 :
              batch.key.textures[t] = Invalid =>
                 \A key1, key2 \in ItemKeysOf(batch) :
                    (key1.textures[t] # Invalid /\ key2.textures[t] # Invalid)
                    => key1.textures[t] = key2.textures[t]

(***************************************************************************)
(* Further properties of RenderPass.build.                                 *)
(***************************************************************************)
\* What the add_task of a target writes into.
TaskLists(target) ==
    << target.alpha_batcher_tasks, target.isolate_clears, target.vertical_blurs,
       target.horizontal_blurs, target.box_shadow_cache_prims, target.text_run_cache_prims,
       target.text_run_textures, target.readbacks, target.rectangles, target.images >>

\* C27: in RenderPass.build every task with a Dynamic location that is not
\* skipped is dispatched to the target whose index was written into its
\* location: the target that receives add_task is the target at the
\* RenderTargetIndex returned by the allocation made for that task.
C27_DispatchToAllocatedTarget ==
    [][ (/\ step'.op = "build" /\ step'.seq # step.seq
         /\ step'.task.location.type = "Dynamic"
         /\ ~step'.skipped
         /\ step'.dispatched)
        => LET color == step'.task.kind # "CacheMask"
               old == IF color THEN color_targets ELSE alpha_targets
               new == IF color THEN color_targets' ELSE alpha_targets'
               index == step'.task.location.origin.target
               rect == RectOf(step'.task.location.origin, step'.task.location.size)
               before == IF index + 1 <= Len(old) THEN old[index + 1]
                         ELSE IF color THEN new_color_target ELSE new_alpha_target
           IN /\ step'.allocated
              /\ ~step'.task.location.origin.none
              /\ index = step'.target_index
              /\ index + 1 \in 1..Len(new)
              /\ alloc_log'[Len(alloc_log')].index = index
              /\ alloc_log'[Len(alloc_log')].rect = rect
              /\ new[index + 1].allocs = Append(before.allocs, rect)
              /\ TaskLists(new[index + 1]) # TaskLists(before)
              /\ \A i \in 1..Len(old) : i # index + 1 => new[i] = old[i]
              /\ Len(new) <= Len(old) + 1
              /\ IF color THEN alpha_targets' = alpha_targets
                 ELSE color_targets' = color_targets ]_vars

\* C27 witness: a task overflowed into a second color target and was
\* dispatched there, while the first target holds the task built before.
C27_Witness ==
    /\ step.op = "build"
    /\ step.dispatched
    /\ step.allocated
    /\ step.task.kind = "Alpha"
    /\ step.target_index = 1
    /\ Len(color_targets) = 2
    /\ Len(color_targets[1].alpha_batcher_tasks) = 1
    /\ color_targets[2].alpha_batcher_tasks = << step.task.id >>
    /\ Len(color_targets[2].allocs) = 1

\* The step just taken was an iteration of RenderPass.build that reached
\* render_tasks.add (tiling.rs:1315) with a task of dynamic id.
AddCalledForDynamicId ==
    /\ step'.op = "build" /\ step'.seq # step.seq
    /\ step'.task.id.type = "Dynamic"
    /\ step'.allocated \/ step'.task.location.type = "Fixed"

\* C28: for any sequence of tasks queued on passes with distinct pass
\* indices and built through RenderPass.build, RenderTaskCollection.add is
\* never called with a dynamic (key, pass) that is already registered (the
\* debug assertion in add never fails), and it is never called for a
\* dynamic id whose Dynamic location has no origin.
C28_AddPreconditions ==
    [][ AddCalledForDynamicId =>
          LET kp == <<step'.task.id.key, pass_index>>
          IN /\ kp \notin DOMAIN dynamic_tasks
             /\ step'.task.location.type = "Dynamic"
             /\ ~step'.task.location.origin.none
             /\ kp \in DOMAIN dynamic_tasks'
             /\ dynamic_tasks'[kp].index = Len(render_task_data)
             /\ Len(render_task_data') = Len(render_task_data) + 1
             /\ step'.task_index = Len(render_task_data) ]_vars

\* C28 witness: a key registered in pass 0 was registered again in pass 1,
\* after one more task of pass 0 that registered nothing.
C28_Witness ==
    /\ step.op = "build"
    /\ step.seq = 3
    /\ step.allocated
    /\ step.task.id = Dynamic(TextShadowKey)
    /\ pass_index = 1
    /\ DOMAIN dynamic_tasks = { <<TextShadowKey, 0>>, <<TextShadowKey, 1>> }
    /\ Len(render_task_data) = StaticTaskCount + 2
    /\ Len(alloc_log) = 2

\* The task (by static index) whose item created the batch.
CreatorOf(batch) == batch.instances[1].task_index

\* The current task has had no opaque item yet.
NoOpaqueItemYet ==
    \A i \in 1..Len(processed) :
        ~(processed[i].list = "opaque" /\ processed[i].task = cur_task)

\* C29: within one AlphaBatcher.build the alpha and opaque batch lists are
\* shared by all tasks of the target.  Starting a task leaves both lists as
\* they are and restarts the opaque cursor at 0; the alpha merge scan for an
\* item of a later task also considers batches created by earlier tasks, and
\* the first opaque item of a task is placed from cursor 0; so an item of a
\* later task is merged into a compatible batch created by an earlier task,
\* and that batch holds instances with different task_index values.
C29_BatchListsSharedByTasks ==
    [][ /\ cur_task' # cur_task
           => /\ existing_opaque_batch_index' = 0
              /\ alpha_batches' = alpha_batches
              /\ opaque_batches' = opaque_batches
        /\ ScannedAlphaItem
           => LET key == ItemKey(last'.item)
                  rect == ItemRect(last'.item)
                  compatible == CompatibleInWindow(alpha_batches, key)
                  m == CHOOSE i \in compatible : \A j \in compatible : j <= i
              IN (/\ compatible # {}
                  /\ ~IntersectedAfter(alpha_batches, m, rect)
                  /\ CreatorOf(alpha_batches[m]) # cur_task - 1)
                 => /\ last'.batch = m
                    /\ Len(alpha_batches') = Len(alpha_batches)
                    /\ CreatorOf(alpha_batches'[m]) = CreatorOf(alpha_batches[m])
                    /\ alpha_batches'[m].instances[Len(alpha_batches'[m].instances)].task_index
                          = cur_task - 1
        /\ (PlacedOpaqueItem /\ NoOpaqueItemYet)
           => LET key == PrimitiveKey(last'.item)
                  candidates == CompatibleFromCursor(opaque_batches, 0, key)
                  lowest == CHOOSE i \in candidates : \A j \in candidates : i <= j
              IN /\ existing_opaque_batch_index = 0
                 /\ candidates # {}
                    => /\ last'.batch = lowest
                       /\ Len(opaque_batches') = Len(opaque_batches)
                       /\ CreatorOf(opaque_batches'[lowest]) = CreatorOf(opaque_batches[lowest])
                       /\ opaque_batches'[lowest].instances[
                             Len(opaque_batches'[lowest].instances)].task_index = cur_task - 1 ]_vars

\* C29 witness: the second task merged an alpha item and an opaque item into
\* batches the first task created; each of the two batches holds instances
\* of both tasks.
C29_Witness ==
    /\ cur_task = 2
    /\ last.op = "opaque"
    /\ ~last.created
    /\ Len(alpha_batches) = 1
    /\ Len(opaque_batches) = 1
    /\ { alpha_batches[1].instances[k].task_index :
           k \in 1..Len(alpha_batches[1].instances) } = { 0, 1 }
    /\ { opaque_batches[1].instances[k].task_index :
           k \in 1..Len(opaque_batches[1].instances) } = { 0, 1 }

(***************************************************************************)
(* RenderPass.build over tasks of either target kind with Fixed and with   *)
(* Dynamic locations, whatever the pass and the id of the task.            *)
(***************************************************************************)
\* Tasks with a Fixed location of both target kinds and of static and
\* dynamic id, next to tasks with a Dynamic location that make the lists
\* grow.
FixedAndDynamicTasks ==
    { RenderTask(Static(0), "Alpha", Fixed, 0, 0, FALSE),
      RenderTask(Static(2), "Readback", Fixed, 0, 0, FALSE),
      RenderTask(Static(1), "CacheMask", Fixed, 1, 0, FALSE),
      RenderTask(Dynamic(RenderTaskKey("CacheMask", 0, 1)), "CacheMask", Fixed, 1, 0, FALSE),
      RenderTask(Static(1), "Alpha", DynamicLocation(NoOrigin, Size(3, 1)), 0, 0, TRUE),
      RenderTask(Static(2), "Readback", DynamicLocation(NoOrigin, Size(2, 2)), 0, 0, FALSE),
      RenderTask(Dynamic(RenderTaskKey("CacheMask", 0, 1)), "CacheMask",
                 DynamicLocation(NoOrigin, Size(3, 1)), 1, 0, FALSE) }

NextFixed ==
    \/ \E task \in FixedAndDynamicTasks : BuildTask(task)
    \/ NextPass

SpecFixed == InitPass /\ [][NextFixed]_vars

\* The step just taken was an iteration of RenderPass.build for a task with
\* a Fixed location.
BuiltFixed ==
    step'.op = "build" /\ step'.seq # step.seq /\ step'.task.location.type = "Fixed"

\* C30: a Fixed-location task makes no allocation: building it changes
\* neither the number of targets nor any target's used_rect.  When the
\* target list of its kind holds no target at that point, RenderPass.build
\* aborts instead of creating a target.
C30_FixedMakesNoAllocation ==
    [][ BuiltFixed =>
          LET color == step'.task.kind # "CacheMask"
              own == IF color THEN color_targets ELSE alpha_targets
          IN /\ ~step'.allocated
             /\ alloc_log' = alloc_log
             /\ Len(color_targets') = Len(color_targets)
             /\ Len(alpha_targets') = Len(alpha_targets)
             /\ \A t \in 1..Len(color_targets) :
                   /\ color_targets'[t].used_rect = color_targets[t].used_rect
                   /\ color_targets'[t].allocs = color_targets[t].allocs
             /\ \A t \in 1..Len(alpha_targets) :
                   /\ alpha_targets'[t].used_rect = alpha_targets[t].used_rect
                   /\ alpha_targets'[t].allocs = alpha_targets[t].allocs
             /\ Len(own) = 0
                => /\ panicked'
                   /\ ~step'.dispatched
                   /\ color_targets' = color_targets
                   /\ alpha_targets' = alpha_targets ]_vars

\* C30 witness: in a pass that is not the framebuffer pass and has made no
\* color allocation, a Fixed color task of static id was registered and
\* build aborted with the color list still empty, after a Fixed mask task
\* had been dispatched to the one alpha target.
C30_Witness ==
    /\ panicked
    /\ ~is_framebuffer
    /\ step.op = "build"
    /\ step.task = RenderTask(Static(0), "Alpha", Fixed, 0, 0, FALSE)
    /\ color_targets = <<>>
    /\ render_task_data[1].kind = "Alpha"
    /\ Len(alpha_targets) = 1
    /\ Len(alpha_targets[1].allocs) = 1
    /\ Len(alpha_targets[1].rectangles) = 4

====
